---- MODULE Spec2Model ----
(***************************************************************************)
(* Trustful Stellar v1: the Deployer, Scorer and ScorerFactory contracts   *)
(* as a state machine over the ledger.  One top-level invocation is one    *)
(* step; a contract calling another contract runs inside the same step.    *)
(***************************************************************************)
EXTENDS Integers, Sequences, FiniteSets, TLC

\* ------------------------------------------------------------------ bounds
NumAccounts == 2
NumSalts == 2
\* committed invocations explored under Spec
MaxCalls == 2

\* ------------------------------------------------------- program constants
\* add_badge rejects score > 10000
MaxScore == 10000

\* --------------------------------------------------------------- addresses
Accounts == 1..NumAccounts
Salts == 1..NumSalts

\* contracts registered directly on the ledger (env.register_contract)
DEPLOYER == NumAccounts + 1
FACTORY == NumAccounts + 2
SCORER == NumAccounts + 3

\* uploaded code, by hash
WASM_DEPLOYER == "deployer.wasm"
WASM_FACTORY == "scorer_factory.wasm"
WASM_SCORER == "scorer.wasm"
WASM_SCORER_NEW == "trustful_stellar_v1.wasm"
WASM_MISSING == "not_uploaded.wasm"
Uploaded == {WASM_DEPLOYER, WASM_FACTORY, WASM_SCORER, WASM_SCORER_NEW}

IsScorerCode(h) == h \in {WASM_SCORER, WASM_SCORER_NEW}

\* env.deployer().with_address(deployer, salt): the address of the new
\* contract is a function of the deployer address and the salt alone.
DeterministicAddress(deployer, salt) == deployer * 100 + salt

\* ------------------------------------------------------------------ values
\* Val: a dynamically typed host value; one field per payload type.
Val(t, a, s, m, l, tup) == [t |-> t, a |-> a, s |-> s, m |-> m, l |-> l, tup |-> tup]
VUnit == Val("unit", 0, "", <<>>, <<>>, <<>>)
VAddr(x) == Val("addr", x, "", <<>>, <<>>, <<>>)
VU32(x) == Val("u32", x, "", <<>>, <<>>, <<>>)
VStr(x) == Val("str", 0, x, <<>>, <<>>, <<>>)
VSym(x) == Val("sym", 0, x, <<>>, <<>>, <<>>)
VHash(x) == Val("hash", 0, x, <<>>, <<>>, <<>>)
VMap(x) == Val("map", 0, "", x, <<>>, <<>>)
VVec(x) == Val("vec", 0, "", <<>>, x, <<>>)
VTuple(x) == Val("tuple", 0, "", <<>>, <<>>, x)
VBytes(x) == Val("bytes", x, "", <<>>, <<>>, <<>>)
VVals(x) == Val("vals", 0, "", <<>>, <<>>, x)

\* Option<T> of a storage slot: <<>> is None, <<v>> is Some(v)
None == <<>>
Some(v) == <<v>>
IsSome(o) == Len(o) = 1
Get(o) == o[1]

\* BadgeId { name, issuer }
BadgeId(name, issuer) == [name |-> name, issuer |-> issuer]

\* Map helpers (soroban_sdk::Map): a function with a finite domain
MapSet(m, k, v) == [x \in (DOMAIN m) \cup {k} |-> IF x = k THEN v ELSE m[x]]
MapRemove(m, k) == [x \in (DOMAIN m) \ {k} |-> m[x]]
EmptyMap == <<>>

\* Vec helpers (soroban_sdk::Vec)
Contains(vec, x) == \E i \in 1..Len(vec) : vec[i] = x
Position(vec, x) == CHOOSE i \in 1..Len(vec) : vec[i] = x /\ \A j \in 1..(i - 1) : vec[j] # x
VecRemove(vec, idx) == [i \in 1..(Len(vec) - 1) |-> IF i < idx THEN vec[i] ELSE vec[i + 1]]
NoDuplicates(vec) == \A i, j \in 1..Len(vec) : vec[i] = vec[j] => i = j

\* ------------------------------------------------------------------ ledger
\* Persistent storage of one contract instance.  Scorer and ScorerFactory
\* use the same slot names for Initialized and Managers; creator holds
\* ScorerCreator / ScorerFactoryCreator.
EmptyStorage ==
  [initialized |-> None, creator |-> None, managers |-> None,
   badges |-> None, users |-> None,
   name |-> None, description |-> None, icon |-> None,
   wasm_hash |-> None, scorers |-> None]

Instance(wasm, st) == [wasm |-> wasm, st |-> st]

\* world: [inst: address -> Instance] for the contracts that exist
Exists(w, addr) == addr \in DOMAIN w.inst
StorageOf(w, addr) == w.inst[addr].st
\* a key space shared by the instances of one code
SetStorageShared(w, addr, st) ==
  [w EXCEPT !.inst = [x \in DOMAIN w.inst |->
     IF w.inst[x].wasm = w.inst[addr].wasm THEN [w.inst[x] EXCEPT !.st = st] ELSE w.inst[x]]]
SetStorage(w, addr, st) == [w EXCEPT !.inst[addr].st = st]

\* ----------------------------------------------------------------- results
\* The outcome of running a function: on a panic, w and ev are what had been
\* written when it panicked.
Ok(w, ev, ret) == [ok |-> TRUE, err |-> "", w |-> w, ev |-> ev, ret |-> ret]
Panic(w, ev, err) == [ok |-> FALSE, err |-> err, w |-> w, ev |-> ev, ret |-> VUnit]

Event(contract, category, action, data) ==
  [contract |-> contract, topics |-> <<category, action>>, data |-> data]

\* address.require_auth(): the address signed for this invocation, or it is
\* the contract that makes the call.
RequireAuth(address, auth, invoker) == address \in auth \/ address = invoker

\* ================================================================== Scorer
\* contracts/scorer/src/scorer.rs.  Every function takes the world w, the
\* address self of the executing instance, its arguments, the set auth of
\* addresses that signed the invocation and the calling contract invoker
\* (0 for a top-level call).

Scorer_is_initialized(st) == IF IsSome(st.initialized) THEN Get(st.initialized) ELSE FALSE

Scorer_manager_exists(st, manager) ==
  LET managers == IF IsSome(st.managers) THEN Get(st.managers) ELSE <<>>
  IN [exists |-> Contains(managers, manager), managers |-> managers]

\* initialize that does not store a new Users map
Scorer_initializeKeepUsers(w, self, scorer_creator, scorer_badges, name, description, icon, auth, invoker) ==
  LET st == StorageOf(w, self) IN
  IF name = "" \/ description = "" \/ icon = "" THEN Panic(w, <<>>, "EmptyArg")
  ELSE IF Scorer_is_initialized(st) THEN Panic(w, <<>>, "ContractAlreadyInitialized")
  ELSE IF ~RequireAuth(scorer_creator, auth, invoker) THEN Panic(w, <<>>, "Auth")
  ELSE
    LET initial_managers == <<scorer_creator>>
        st2 == [st EXCEPT !.creator = Some(scorer_creator),
                          !.badges = Some(scorer_badges),
                          !.managers = Some(initial_managers),
                          !.initialized = Some(TRUE),
                          !.name = Some(name),
                          !.description = Some(description),
                          !.icon = Some(icon)]
    IN Ok(SetStorage(w, self, st2),
          <<Event(self, "init", "contract",
                  <<VAddr(scorer_creator), VVec(initial_managers), VMap(scorer_badges),
                    VStr(name), VStr(description), VStr(icon)>>)>>,
          VUnit)

\* initialize that tests only the name for emptiness
Scorer_initializeNameOnly(w, self, scorer_creator, scorer_badges, name, description, icon, auth, invoker) ==
  LET st == StorageOf(w, self) IN
  IF name = "" THEN Panic(w, <<>>, "EmptyArg")
  ELSE IF Scorer_is_initialized(st) THEN Panic(w, <<>>, "ContractAlreadyInitialized")
  ELSE IF ~RequireAuth(scorer_creator, auth, invoker) THEN Panic(w, <<>>, "Auth")
  ELSE
    LET initial_managers == <<scorer_creator>>
        st2 == [st EXCEPT !.creator = Some(scorer_creator),
                          !.badges = Some(scorer_badges),
                          !.users = Some(EmptyMap),
                          !.managers = Some(initial_managers),
                          !.initialized = Some(TRUE),
                          !.name = Some(name),
                          !.description = Some(description),
                          !.icon = Some(icon)]
    IN Ok(SetStorage(w, self, st2),
          <<Event(self, "init", "contract",
                  <<VAddr(scorer_creator), VVec(initial_managers), VMap(scorer_badges),
                    VStr(name), VStr(description), VStr(icon)>>)>>,
          VUnit)

Scorer_initialize(w, self, scorer_creator, scorer_badges, name, description, icon, auth, invoker) ==
  LET st == StorageOf(w, self) IN
  IF name = "" \/ description = "" \/ icon = "" THEN Panic(w, <<>>, "EmptyArg")
  ELSE IF Scorer_is_initialized(st) THEN Panic(w, <<>>, "ContractAlreadyInitialized")
  ELSE IF ~RequireAuth(scorer_creator, auth, invoker) THEN Panic(w, <<>>, "Auth")
  ELSE
    LET initial_managers == <<scorer_creator>>
        st2 == [st EXCEPT !.creator = Some(scorer_creator),
                          !.badges = Some(scorer_badges),
                          !.users = Some(EmptyMap),
                          !.managers = Some(initial_managers),
                          !.initialized = Some(TRUE),
                          !.name = Some(name),
                          !.description = Some(description),
                          !.icon = Some(icon)]
    IN Ok(SetStorage(w, self, st2),
          <<Event(self, "init", "contract",
                  <<VAddr(scorer_creator), VVec(initial_managers), VMap(scorer_badges),
                    VStr(name), VStr(description), VStr(icon)>>)>>,
          VUnit)

\* 1 for the scorer code; the code test_upgrade installs reports 0
Scorer_contract_version(w, self) ==
  Ok(w, <<>>, VU32(IF w.inst[self].wasm = WASM_SCORER_NEW THEN 0 ELSE 1))

\* upgrade without admin.require_auth()
Scorer_upgradeNoAuth(w, self, new_wasm_hash, auth, invoker) ==
  LET st == StorageOf(w, self) IN
  IF ~IsSome(st.creator) THEN Panic(w, <<>>, "ScorerCreatorNotFound")
  ELSE
    LET ev == <<Event(self, "upgrade", "wasm", <<VHash(new_wasm_hash)>>)>> IN
    IF new_wasm_hash \notin Uploaded THEN Panic(w, ev, "HostError")
    ELSE Ok([w EXCEPT !.inst[self].wasm = new_wasm_hash], ev, VUnit)

Scorer_upgrade(w, self, new_wasm_hash, auth, invoker) ==
  LET st == StorageOf(w, self) IN
  IF ~IsSome(st.creator) THEN Panic(w, <<>>, "ScorerCreatorNotFound")
  ELSE IF ~RequireAuth(Get(st.creator), auth, invoker) THEN Panic(w, <<>>, "Auth")
  ELSE
    LET ev == <<Event(self, "upgrade", "wasm", <<VHash(new_wasm_hash)>>)>> IN
    IF new_wasm_hash \notin Uploaded THEN Panic(w, ev, "HostError")
    ELSE Ok([w EXCEPT !.inst[self].wasm = new_wasm_hash], ev, VUnit)

\* add_manager that also accepts a sender from the manager list
Scorer_add_managerByManager(w, self, sender, new_manager, auth, invoker) ==
  LET st == StorageOf(w, self) IN
  IF ~RequireAuth(sender, auth, invoker) THEN Panic(w, <<>>, "Auth")
  ELSE IF ~IsSome(st.creator) THEN Panic(w, <<>>, "ScorerCreatorNotFound")
  ELSE IF Get(st.creator) # sender /\ ~Scorer_manager_exists(st, sender).exists
       THEN Panic(w, <<>>, "Unauthorized")
  ELSE
    LET me == Scorer_manager_exists(st, new_manager) IN
    IF me.exists THEN Panic(w, <<>>, "ManagerAlreadyExists")
    ELSE Ok(SetStorage(w, self, [st EXCEPT !.managers = Some(Append(me.managers, new_manager))]),
            <<Event(self, "manager", "add", <<VAddr(sender), VAddr(new_manager)>>)>>,
            VUnit)

Scorer_add_manager(w, self, sender, new_manager, auth, invoker) ==
  LET st == StorageOf(w, self) IN
  IF ~RequireAuth(sender, auth, invoker) THEN Panic(w, <<>>, "Auth")
  ELSE IF ~IsSome(st.creator) THEN Panic(w, <<>>, "ScorerCreatorNotFound")
  ELSE IF Get(st.creator) # sender THEN Panic(w, <<>>, "Unauthorized")
  ELSE
    LET me == Scorer_manager_exists(st, new_manager) IN
    IF me.exists THEN Panic(w, <<>>, "ManagerAlreadyExists")
    ELSE Ok(SetStorage(w, self, [st EXCEPT !.managers = Some(Append(me.managers, new_manager))]),
            <<Event(self, "manager", "add", <<VAddr(sender), VAddr(new_manager)>>)>>,
            VUnit)

\* remove_manager that accepts an address that is not in the list
Scorer_remove_managerNoCheck(w, self, sender, manager_to_remove, auth, invoker) ==
  LET st == StorageOf(w, self) IN
  IF ~RequireAuth(sender, auth, invoker) THEN Panic(w, <<>>, "Auth")
  ELSE IF ~IsSome(st.creator) THEN Panic(w, <<>>, "ScorerCreatorNotFound")
  ELSE IF Get(st.creator) # sender THEN Panic(w, <<>>, "Unauthorized")
  ELSE
    LET me == Scorer_manager_exists(st, manager_to_remove) IN
    Ok(SetStorage(w, self, [st EXCEPT !.managers =
          Some(IF me.exists
               THEN VecRemove(me.managers, Position(me.managers, manager_to_remove))
               ELSE me.managers)]),
       <<Event(self, "manager", "remove", <<VAddr(sender), VAddr(manager_to_remove)>>)>>,
       VUnit)

\* remove_manager that fills the hole with the last element of the list
Scorer_remove_managerSwap(w, self, sender, manager_to_remove, auth, invoker) ==
  LET st == StorageOf(w, self) IN
  IF ~RequireAuth(sender, auth, invoker) THEN Panic(w, <<>>, "Auth")
  ELSE IF ~IsSome(st.creator) THEN Panic(w, <<>>, "ScorerCreatorNotFound")
  ELSE IF Get(st.creator) # sender THEN Panic(w, <<>>, "Unauthorized")
  ELSE
    LET me == Scorer_manager_exists(st, manager_to_remove) IN
    IF ~me.exists THEN Panic(w, <<>>, "ManagerNotFound")
    ELSE Ok(SetStorage(w, self, [st EXCEPT !.managers =
                Some([i \in 1..(Len(me.managers) - 1) |->
                       IF i = Position(me.managers, manager_to_remove)
                       THEN me.managers[Len(me.managers)] ELSE me.managers[i]])]),
            <<Event(self, "manager", "remove", <<VAddr(sender), VAddr(manager_to_remove)>>)>>,
            VUnit)

Scorer_remove_manager(w, self, sender, manager_to_remove, auth, invoker) ==
  LET st == StorageOf(w, self) IN
  IF ~RequireAuth(sender, auth, invoker) THEN Panic(w, <<>>, "Auth")
  ELSE IF ~IsSome(st.creator) THEN Panic(w, <<>>, "ScorerCreatorNotFound")
  ELSE IF Get(st.creator) # sender THEN Panic(w, <<>>, "Unauthorized")
  ELSE
    LET me == Scorer_manager_exists(st, manager_to_remove) IN
    IF ~me.exists THEN Panic(w, <<>>, "ManagerNotFound")
    ELSE Ok(SetStorage(w, self, [st EXCEPT !.managers =
                Some(VecRemove(me.managers, Position(me.managers, manager_to_remove)))]),
            <<Event(self, "manager", "remove", <<VAddr(sender), VAddr(manager_to_remove)>>)>>,
            VUnit)

\* add_user that rejects every address already in the map
Scorer_add_userKeyOnly(w, self, user, auth, invoker) ==
  LET st == StorageOf(w, self) IN
  IF ~RequireAuth(user, auth, invoker) THEN Panic(w, <<>>, "Auth")
  ELSE
    LET users == IF IsSome(st.users) THEN Get(st.users) ELSE EmptyMap IN
    IF user \in DOMAIN users THEN Panic(w, <<>>, "UserAlreadyExist")
    ELSE Ok(SetStorage(w, self, [st EXCEPT !.users = Some(MapSet(users, user, TRUE))]),
            <<Event(self, "user", "add", <<VAddr(user)>>)>>,
            VUnit)

Scorer_add_user(w, self, user, auth, invoker) ==
  LET st == StorageOf(w, self) IN
  IF ~RequireAuth(user, auth, invoker) THEN Panic(w, <<>>, "Auth")
  ELSE
    LET users == IF IsSome(st.users) THEN Get(st.users) ELSE EmptyMap IN
    IF user \in DOMAIN users /\ users[user] THEN Panic(w, <<>>, "UserAlreadyExist")
    ELSE Ok(SetStorage(w, self, [st EXCEPT !.users = Some(MapSet(users, user, TRUE))]),
            <<Event(self, "user", "add", <<VAddr(user)>>)>>,
            VUnit)

\* remove_user that does not look at the flag
Scorer_remove_userNoFlag(w, self, user, auth, invoker) ==
  LET st == StorageOf(w, self) IN
  IF ~RequireAuth(user, auth, invoker) THEN Panic(w, <<>>, "Auth")
  ELSE IF ~IsSome(st.users) THEN Panic(w, <<>>, "UserDoesNotExist")
  ELSE
    LET users == Get(st.users) IN
    IF user \notin DOMAIN users THEN Panic(w, <<>>, "UserDoesNotExist")
    ELSE Ok(SetStorage(w, self, [st EXCEPT !.users = Some(MapSet(users, user, FALSE))]),
            <<Event(self, "user", "remove", <<VAddr(user)>>)>>,
            VUnit)

\* remove_user that deletes the key
Scorer_remove_userDelete(w, self, user, auth, invoker) ==
  LET st == StorageOf(w, self) IN
  IF ~RequireAuth(user, auth, invoker) THEN Panic(w, <<>>, "Auth")
  ELSE IF ~IsSome(st.users) THEN Panic(w, <<>>, "UserDoesNotExist")
  ELSE
    LET users == Get(st.users) IN
    IF user \notin DOMAIN users \/ ~users[user] THEN Panic(w, <<>>, "UserDoesNotExist")
    ELSE Ok(SetStorage(w, self, [st EXCEPT !.users = Some(MapRemove(users, user))]),
            <<Event(self, "user", "remove", <<VAddr(user)>>)>>,
            VUnit)

Scorer_remove_user(w, self, user, auth, invoker) ==
  LET st == StorageOf(w, self) IN
  IF ~RequireAuth(user, auth, invoker) THEN Panic(w, <<>>, "Auth")
  ELSE IF ~IsSome(st.users) THEN Panic(w, <<>>, "UserDoesNotExist")
  ELSE
    LET users == Get(st.users) IN
    IF user \notin DOMAIN users \/ ~users[user] THEN Panic(w, <<>>, "UserDoesNotExist")
    ELSE Ok(SetStorage(w, self, [st EXCEPT !.users = Some(MapSet(users, user, FALSE))]),
            <<Event(self, "user", "remove", <<VAddr(user)>>)>>,
            VUnit)

\* get_users(): the stored map, or an empty map when none was stored
Scorer_get_users(st) == IF IsSome(st.users) THEN Get(st.users) ELSE EmptyMap

\* get_badges(): the stored map, or an empty map when none was stored
Scorer_get_badges(st) == IF IsSome(st.badges) THEN Get(st.badges) ELSE EmptyMap

\* add_badge that also accepts the creator when it is not in the manager list
Scorer_add_badgeByCreator(w, self, sender, name, issuer, score, auth, invoker) ==
  LET st == StorageOf(w, self) IN
  IF ~RequireAuth(sender, auth, invoker) THEN Panic(w, <<>>, "Auth")
  ELSE IF ~Scorer_manager_exists(st, sender).exists /\ st.creator # Some(sender)
       THEN Panic(w, <<>>, "Unauthorized")
  ELSE IF name = "" THEN Panic(w, <<>>, "EmptyArg")
  ELSE IF score > MaxScore THEN Panic(w, <<>>, "InvalidScoreRange")
  ELSE
    LET badges == IF IsSome(st.badges) THEN Get(st.badges) ELSE EmptyMap
        badge_id == BadgeId(name, issuer)
    IN
    IF badge_id \in DOMAIN badges THEN Panic(w, <<>>, "BadgeAlreadyExists")
    ELSE Ok(SetStorage(w, self, [st EXCEPT !.badges = Some(MapSet(badges, badge_id, score))]),
            <<Event(self, "badge", "add",
                    <<VStr(name), VAddr(issuer), VU32(score), VAddr(sender)>>)>>,
            VUnit)

\* add_badge whose score bound excludes the maximum
Scorer_add_badgeBelowMax(w, self, sender, name, issuer, score, auth, invoker) ==
  LET st == StorageOf(w, self) IN
  IF ~RequireAuth(sender, auth, invoker) THEN Panic(w, <<>>, "Auth")
  ELSE IF ~Scorer_manager_exists(st, sender).exists THEN Panic(w, <<>>, "Unauthorized")
  ELSE IF name = "" THEN Panic(w, <<>>, "EmptyArg")
  ELSE IF score >= MaxScore THEN Panic(w, <<>>, "InvalidScoreRange")
  ELSE
    LET badges == IF IsSome(st.badges) THEN Get(st.badges) ELSE EmptyMap
        badge_id == BadgeId(name, issuer)
    IN
    IF badge_id \in DOMAIN badges THEN Panic(w, <<>>, "BadgeAlreadyExists")
    ELSE Ok(SetStorage(w, self, [st EXCEPT !.badges = Some(MapSet(badges, badge_id, score))]),
            <<Event(self, "badge", "add",
                    <<VStr(name), VAddr(issuer), VU32(score), VAddr(sender)>>)>>,
            VUnit)

Scorer_add_badge(w, self, sender, name, issuer, score, auth, invoker) ==
  LET st == StorageOf(w, self) IN
  IF ~RequireAuth(sender, auth, invoker) THEN Panic(w, <<>>, "Auth")
  ELSE IF ~Scorer_manager_exists(st, sender).exists THEN Panic(w, <<>>, "Unauthorized")
  ELSE IF name = "" THEN Panic(w, <<>>, "EmptyArg")
  ELSE IF score > MaxScore THEN Panic(w, <<>>, "InvalidScoreRange")
  ELSE
    LET badges == IF IsSome(st.badges) THEN Get(st.badges) ELSE EmptyMap
        badge_id == BadgeId(name, issuer)
    IN
    IF badge_id \in DOMAIN badges THEN Panic(w, <<>>, "BadgeAlreadyExists")
    ELSE Ok(SetStorage(w, self, [st EXCEPT !.badges = Some(MapSet(badges, badge_id, score))]),
            <<Event(self, "badge", "add",
                    <<VStr(name), VAddr(issuer), VU32(score), VAddr(sender)>>)>>,
            VUnit)

\* remove_badge that stores an empty map
Scorer_remove_badgeClear(w, self, sender, name, issuer, auth, invoker) ==
  LET st == StorageOf(w, self) IN
  IF ~RequireAuth(sender, auth, invoker) THEN Panic(w, <<>>, "Auth")
  ELSE IF ~Scorer_manager_exists(st, sender).exists THEN Panic(w, <<>>, "Unauthorized")
  ELSE IF ~IsSome(st.badges) THEN Panic(w, <<>>, "BadgeNotFound")
  ELSE
    LET badges == Get(st.badges)
        badge_id == BadgeId(name, issuer)
    IN
    IF badge_id \notin DOMAIN badges THEN Panic(w, <<>>, "BadgeNotFound")
    ELSE Ok(SetStorage(w, self, [st EXCEPT !.badges = Some(EmptyMap)]),
            <<Event(self, "badge", "remove",
                    <<VStr(name), VAddr(issuer), VU32(badges[badge_id]), VAddr(sender)>>)>>,
            VUnit)

Scorer_remove_badge(w, self, sender, name, issuer, auth, invoker) ==
  LET st == StorageOf(w, self) IN
  IF ~RequireAuth(sender, auth, invoker) THEN Panic(w, <<>>, "Auth")
  ELSE IF ~Scorer_manager_exists(st, sender).exists THEN Panic(w, <<>>, "Unauthorized")
  ELSE IF ~IsSome(st.badges) THEN Panic(w, <<>>, "BadgeNotFound")
  ELSE
    LET badges == Get(st.badges)
        badge_id == BadgeId(name, issuer)
    IN
    IF badge_id \notin DOMAIN badges THEN Panic(w, <<>>, "BadgeNotFound")
    ELSE Ok(SetStorage(w, self, [st EXCEPT !.badges = Some(MapRemove(badges, badge_id))]),
            <<Event(self, "badge", "remove",
                    <<VStr(name), VAddr(issuer), VU32(badges[badge_id]), VAddr(sender)>>)>>,
            VUnit)

\* get_metadata that returns (name, icon, description)
Scorer_get_metadataSwapped(st) ==
  <<IF IsSome(st.name) THEN Get(st.name) ELSE "",
    IF IsSome(st.icon) THEN Get(st.icon) ELSE "",
    IF IsSome(st.description) THEN Get(st.description) ELSE "">>

Scorer_get_metadata(st) ==
  <<IF IsSome(st.name) THEN Get(st.name) ELSE "",
    IF IsSome(st.description) THEN Get(st.description) ELSE "",
    IF IsSome(st.icon) THEN Get(st.icon) ELSE "">>

\* ==================================================================== host
\* env.deployer().with_address(deployer, salt).deploy(wasm_hash): a new
\* instance of the uploaded code with empty storage at the derived address;
\* traps if the code is not uploaded or the address is occupied.
HostDeployOverwrite(w, deployer, salt, wasm_hash) ==
  LET address == DeterministicAddress(deployer, salt) IN
  IF wasm_hash \notin Uploaded THEN Panic(w, <<>>, "HostError")
  ELSE Ok([w EXCEPT !.inst = [x \in (DOMAIN w.inst) \cup {address} |->
                                IF x = address THEN Instance(wasm_hash, EmptyStorage)
                                ELSE w.inst[x]]],
          <<>>, VAddr(address))

HostDeploy(w, deployer, salt, wasm_hash) ==
  LET address == DeterministicAddress(deployer, salt) IN
  IF wasm_hash \notin Uploaded THEN Panic(w, <<>>, "HostError")
  ELSE IF Exists(w, address) THEN Panic(w, <<>>, "HostError")
  ELSE Ok([w EXCEPT !.inst = w.inst @@ (address :> Instance(wasm_hash, EmptyStorage))],
          <<>>, VAddr(address))

\* the argument list has exactly these types
TypesAre(args, ts) == Len(args) = Len(ts) /\ \A i \in 1..Len(ts) : args[i].t = ts[i]

RECURSIVE InvokeContract(_, _, _, _, _, _)

\* ================================================================ Deployer
\* contracts/deployer/src/deployer.rs

\* deploy that carries on when the init call failed
Deployer_deployIgnoreInitFailure(w, self, deployer, wasm_hash, salt, init_fn, init_args, auth, invoker) ==
  IF deployer # self /\ ~RequireAuth(deployer, auth, invoker) THEN Panic(w, <<>>, "Auth")
  ELSE
    LET d == HostDeploy(w, deployer, salt, wasm_hash) IN
    IF ~d.ok THEN d
    ELSE
      LET deployed_address == d.ret.a
          r == InvokeContract(d.w, deployed_address, init_fn, init_args, auth, self)
      IN
      IF ~r.ok THEN Ok(d.w, <<>>, VTuple(<<VAddr(deployed_address), VUnit>>))
      ELSE Ok(r.w, r.ev, VTuple(<<VAddr(deployed_address), r.ret>>))

\* deploy that leaves the init call to a later invocation
Deployer_deployNoInit(w, self, deployer, wasm_hash, salt, init_fn, init_args, auth, invoker) ==
  IF deployer # self /\ ~RequireAuth(deployer, auth, invoker) THEN Panic(w, <<>>, "Auth")
  ELSE
    LET d == HostDeploy(w, deployer, salt, wasm_hash) IN
    IF ~d.ok THEN d
    ELSE Ok(d.w, <<>>, VTuple(<<d.ret, VUnit>>))

\* deploy without the authorization check
Deployer_deployNoAuth(w, self, deployer, wasm_hash, salt, init_fn, init_args, auth, invoker) ==
  LET d == HostDeploy(w, deployer, salt, wasm_hash) IN
  IF ~d.ok THEN d
  ELSE
    LET deployed_address == d.ret.a
        r == InvokeContract(d.w, deployed_address, init_fn, init_args, auth, self)
    IN
    IF ~r.ok THEN r
    ELSE Ok(r.w, r.ev, VTuple(<<VAddr(deployed_address), r.ret>>))

Deployer_deploy(w, self, deployer, wasm_hash, salt, init_fn, init_args, auth, invoker) ==
  IF deployer # self /\ ~RequireAuth(deployer, auth, invoker) THEN Panic(w, <<>>, "Auth")
  ELSE
    LET d == HostDeploy(w, deployer, salt, wasm_hash) IN
    IF ~d.ok THEN d
    ELSE
      LET deployed_address == d.ret.a
          r == InvokeContract(d.w, deployed_address, init_fn, init_args, auth, self)
      IN
      IF ~r.ok THEN r
      ELSE Ok(r.w, r.ev, VTuple(<<VAddr(deployed_address), r.ret>>))

\* =========================================================== ScorerFactory
\* contracts/scorer_factory/src/scorer_factory.rs
Factory_is_initialized(st) == IF IsSome(st.initialized) THEN Get(st.initialized) ELSE FALSE

\* is_manager that counts the creator as a manager
Factory_is_managerOrCreator(st, address) ==
  st.creator = Some(address)
    \/ Contains(IF IsSome(st.managers) THEN Get(st.managers) ELSE <<>>, address)

Factory_is_manager(st, address) ==
  Contains(IF IsSome(st.managers) THEN Get(st.managers) ELSE <<>>, address)

\* is_scorer_factory_creator panics with ScorerFactoryCreatorNotFound when
\* the creator slot is absent: the handlers below test the slot before it.
Factory_is_scorer_factory_creator(st, address) == Get(st.creator) = address

Factory_is_authorized(st, caller) ==
  Factory_is_scorer_factory_creator(st, caller) \/ Factory_is_manager(st, caller)

\* initialize without its is_initialized guard
Factory_initializeNoGuard(w, self, scorer_creator, scorer_wasm_hash, auth, invoker) ==
  LET st == StorageOf(w, self) IN
  IF ~RequireAuth(scorer_creator, auth, invoker) THEN Panic(w, <<>>, "Auth")
  ELSE Ok(SetStorage(w, self, [st EXCEPT !.initialized = Some(TRUE),
                                          !.creator = Some(scorer_creator),
                                          !.managers = Some(<<scorer_creator>>),
                                          !.wasm_hash = Some(scorer_wasm_hash),
                                          !.scorers = Some(EmptyMap)]),
          <<>>, VUnit)

\* initialize that the stored creator may run again
Factory_initializeByCreator(w, self, scorer_creator, scorer_wasm_hash, auth, invoker) ==
  LET st == StorageOf(w, self) IN
  IF Factory_is_initialized(st) /\ st.creator # Some(scorer_creator)
  THEN Panic(w, <<>>, "ContractAlreadyInitialized")
  ELSE IF ~RequireAuth(scorer_creator, auth, invoker) THEN Panic(w, <<>>, "Auth")
  ELSE Ok(SetStorage(w, self, [st EXCEPT !.initialized = Some(TRUE),
                                          !.creator = Some(scorer_creator),
                                          !.managers = Some(<<scorer_creator>>),
                                          !.wasm_hash = Some(scorer_wasm_hash),
                                          !.scorers = Some(EmptyMap)]),
          <<>>, VUnit)

Factory_initialize(w, self, scorer_creator, scorer_wasm_hash, auth, invoker) ==
  LET st == StorageOf(w, self) IN
  IF Factory_is_initialized(st) THEN Panic(w, <<>>, "ContractAlreadyInitialized")
  ELSE IF ~RequireAuth(scorer_creator, auth, invoker) THEN Panic(w, <<>>, "Auth")
  ELSE Ok(SetStorage(w, self, [st EXCEPT !.initialized = Some(TRUE),
                                          !.creator = Some(scorer_creator),
                                          !.managers = Some(<<scorer_creator>>),
                                          !.wasm_hash = Some(scorer_wasm_hash),
                                          !.scorers = Some(EmptyMap)]),
          <<>>, VUnit)

\* create_scorer that counts init_args only after it has deployed
Factory_create_scorerLateLenCheck(w, self, deployer, salt, init_fn, init_args, auth, invoker) ==
  LET st == StorageOf(w, self) IN
  IF deployer # self /\ ~RequireAuth(deployer, auth, invoker) THEN Panic(w, <<>>, "Auth")
  ELSE IF ~IsSome(st.wasm_hash) THEN Panic(w, <<>>, "ContractCreatorNotFound")
  ELSE
    LET d == HostDeploy(w, deployer, salt, Get(st.wasm_hash)) IN
    IF ~d.ok THEN d
    ELSE IF Len(init_args) < 3 THEN Panic(d.w, <<>>, "InvalidInitArgs")
    ELSE
      LET scorer_address == d.ret.a
          r == InvokeContract(d.w, scorer_address, init_fn, init_args, auth, self)
      IN
      IF ~r.ok THEN r
      ELSE IF r.ret.t # "unit" THEN Panic(r.w, r.ev, "HostError")
      ELSE
        LET st2 == StorageOf(r.w, self)
            created_scorers == IF IsSome(st2.scorers) THEN Get(st2.scorers) ELSE EmptyMap
            args_len == Len(init_args)
            scorer_icon == init_args[args_len]
            scorer_description == init_args[args_len - 1]
            scorer_name == init_args[args_len - 2]
        IN
        IF scorer_icon.t # "str" \/ scorer_description.t # "str" \/ scorer_name.t # "str"
        THEN Panic(r.w, r.ev, "HostError")
        ELSE Ok(SetStorage(r.w, self,
                  [st2 EXCEPT !.scorers = Some(MapSet(created_scorers, scorer_address,
                       <<scorer_name.s, scorer_description.s, scorer_icon.s>>))]),
                Append(r.ev, Event(self, "scorer", "create",
                       <<VAddr(deployer), VAddr(scorer_address), scorer_name,
                         scorer_description, scorer_icon>>)),
                VAddr(scorer_address))

\* create_scorer that reads the metadata from the tail of init_args in reverse
Factory_create_scorerSwapMeta(w, self, deployer, salt, init_fn, init_args, auth, invoker) ==
  LET st == StorageOf(w, self) IN
  IF deployer # self /\ ~RequireAuth(deployer, auth, invoker) THEN Panic(w, <<>>, "Auth")
  ELSE IF Len(init_args) < 3 THEN Panic(w, <<>>, "InvalidInitArgs")
  ELSE IF ~IsSome(st.wasm_hash) THEN Panic(w, <<>>, "ContractCreatorNotFound")
  ELSE
    LET d == HostDeploy(w, deployer, salt, Get(st.wasm_hash)) IN
    IF ~d.ok THEN d
    ELSE
      LET scorer_address == d.ret.a
          r == InvokeContract(d.w, scorer_address, init_fn, init_args, auth, self)
      IN
      IF ~r.ok THEN r
      ELSE IF r.ret.t # "unit" THEN Panic(r.w, r.ev, "HostError")
      ELSE
        LET st2 == StorageOf(r.w, self)
            created_scorers == IF IsSome(st2.scorers) THEN Get(st2.scorers) ELSE EmptyMap
            args_len == Len(init_args)
            scorer_icon == init_args[args_len - 2]
            scorer_description == init_args[args_len - 1]
            scorer_name == init_args[args_len]
        IN
        IF scorer_icon.t # "str" \/ scorer_description.t # "str" \/ scorer_name.t # "str"
        THEN Panic(r.w, r.ev, "HostError")
        ELSE Ok(SetStorage(r.w, self,
                  [st2 EXCEPT !.scorers = Some(MapSet(created_scorers, scorer_address,
                       <<scorer_name.s, scorer_description.s, scorer_icon.s>>))]),
                Append(r.ev, Event(self, "scorer", "create",
                       <<VAddr(deployer), VAddr(scorer_address), scorer_name,
                         scorer_description, scorer_icon>>)),
                VAddr(scorer_address))

\* create_scorer that records the address again when it is already occupied
Factory_create_scorerRelist(w, self, deployer, salt, init_fn, init_args, auth, invoker) ==
  LET st == StorageOf(w, self) IN
  IF deployer # self /\ ~RequireAuth(deployer, auth, invoker) THEN Panic(w, <<>>, "Auth")
  ELSE IF Len(init_args) < 3 THEN Panic(w, <<>>, "InvalidInitArgs")
  ELSE IF ~IsSome(st.wasm_hash) THEN Panic(w, <<>>, "ContractCreatorNotFound")
  ELSE
    LET d == HostDeploy(w, deployer, salt, Get(st.wasm_hash)) IN
    IF ~d.ok /\ ~Exists(w, DeterministicAddress(deployer, salt)) THEN d
    ELSE IF ~d.ok
    THEN Ok(SetStorage(w, self,
              [st EXCEPT !.scorers = Some(MapSet(
                 IF IsSome(st.scorers) THEN Get(st.scorers) ELSE EmptyMap,
                 DeterministicAddress(deployer, salt),
                 <<init_args[Len(init_args) - 2].s, init_args[Len(init_args) - 1].s,
                   init_args[Len(init_args)].s>>))]),
            <<>>, VAddr(DeterministicAddress(deployer, salt)))
    ELSE
      LET scorer_address == d.ret.a
          r == InvokeContract(d.w, scorer_address, init_fn, init_args, auth, self)
      IN
      IF ~r.ok THEN r
      ELSE IF r.ret.t # "unit" THEN Panic(r.w, r.ev, "HostError")
      ELSE
        LET st2 == StorageOf(r.w, self)
            created_scorers == IF IsSome(st2.scorers) THEN Get(st2.scorers) ELSE EmptyMap
            args_len == Len(init_args)
            scorer_icon == init_args[args_len]
            scorer_description == init_args[args_len - 1]
            scorer_name == init_args[args_len - 2]
        IN
        IF scorer_icon.t # "str" \/ scorer_description.t # "str" \/ scorer_name.t # "str"
        THEN Panic(r.w, r.ev, "HostError")
        ELSE Ok(SetStorage(r.w, self,
                  [st2 EXCEPT !.scorers = Some(MapSet(created_scorers, scorer_address,
                       <<scorer_name.s, scorer_description.s, scorer_icon.s>>))]),
                Append(r.ev, Event(self, "scorer", "create",
                       <<VAddr(deployer), VAddr(scorer_address), scorer_name,
                         scorer_description, scorer_icon>>)),
                VAddr(scorer_address))

Factory_create_scorer(w, self, deployer, salt, init_fn, init_args, auth, invoker) ==
  LET st == StorageOf(w, self) IN
  IF deployer # self /\ ~RequireAuth(deployer, auth, invoker) THEN Panic(w, <<>>, "Auth")
  ELSE IF Len(init_args) < 3 THEN Panic(w, <<>>, "InvalidInitArgs")
  ELSE IF ~IsSome(st.wasm_hash) THEN Panic(w, <<>>, "ContractCreatorNotFound")
  ELSE
    LET d == HostDeploy(w, deployer, salt, Get(st.wasm_hash)) IN
    IF ~d.ok THEN d
    ELSE
      LET scorer_address == d.ret.a
          r == InvokeContract(d.w, scorer_address, init_fn, init_args, auth, self)
      IN
      IF ~r.ok THEN r
      ELSE IF r.ret.t # "unit" THEN Panic(r.w, r.ev, "HostError")
      ELSE
        LET st2 == StorageOf(r.w, self)
            created_scorers == IF IsSome(st2.scorers) THEN Get(st2.scorers) ELSE EmptyMap
            args_len == Len(init_args)
            scorer_icon == init_args[args_len]
            scorer_description == init_args[args_len - 1]
            scorer_name == init_args[args_len - 2]
        IN
        IF scorer_icon.t # "str" \/ scorer_description.t # "str" \/ scorer_name.t # "str"
        THEN Panic(r.w, r.ev, "HostError")
        ELSE Ok(SetStorage(r.w, self,
                  [st2 EXCEPT !.scorers = Some(MapSet(created_scorers, scorer_address,
                       <<scorer_name.s, scorer_description.s, scorer_icon.s>>))]),
                Append(r.ev, Event(self, "scorer", "create",
                       <<VAddr(deployer), VAddr(scorer_address), scorer_name,
                         scorer_description, scorer_icon>>)),
                VAddr(scorer_address))

\* add_manager without its membership test
Factory_add_managerNoCheck(w, self, caller, manager, auth, invoker) ==
  LET st == StorageOf(w, self) IN
  IF ~RequireAuth(caller, auth, invoker) THEN Panic(w, <<>>, "Auth")
  ELSE IF ~IsSome(st.creator) THEN Panic(w, <<>>, "ScorerFactoryCreatorNotFound")
  ELSE IF ~Factory_is_authorized(st, caller) THEN Panic(w, <<>>, "Unauthorized")
  ELSE
    LET managers == IF IsSome(st.managers) THEN Get(st.managers) ELSE <<>> IN
    Ok(SetStorage(w, self, [st EXCEPT !.managers = Some(Append(managers, manager))]),
       <<Event(self, "manager", "add", <<VAddr(caller), VAddr(manager)>>)>>,
       VUnit)

\* add_manager that admits listed managers only
Factory_add_managerListedOnly(w, self, caller, manager, auth, invoker) ==
  LET st == StorageOf(w, self) IN
  IF ~RequireAuth(caller, auth, invoker) THEN Panic(w, <<>>, "Auth")
  ELSE IF ~IsSome(st.creator) THEN Panic(w, <<>>, "ScorerFactoryCreatorNotFound")
  ELSE IF ~Factory_is_manager(st, caller) THEN Panic(w, <<>>, "Unauthorized")
  ELSE
    LET managers == IF IsSome(st.managers) THEN Get(st.managers) ELSE <<>> IN
    IF Contains(managers, manager) THEN Panic(w, <<>>, "ManagerAlreadyExists")
    ELSE Ok(SetStorage(w, self, [st EXCEPT !.managers = Some(Append(managers, manager))]),
            <<Event(self, "manager", "add", <<VAddr(caller), VAddr(manager)>>)>>,
            VUnit)

Factory_add_manager(w, self, caller, manager, auth, invoker) ==
  LET st == StorageOf(w, self) IN
  IF ~RequireAuth(caller, auth, invoker) THEN Panic(w, <<>>, "Auth")
  ELSE IF ~IsSome(st.creator) THEN Panic(w, <<>>, "ScorerFactoryCreatorNotFound")
  ELSE IF ~Factory_is_authorized(st, caller) THEN Panic(w, <<>>, "Unauthorized")
  ELSE
    LET managers == IF IsSome(st.managers) THEN Get(st.managers) ELSE <<>> IN
    IF Contains(managers, manager) THEN Panic(w, <<>>, "ManagerAlreadyExists")
    ELSE Ok(SetStorage(w, self, [st EXCEPT !.managers = Some(Append(managers, manager))]),
            <<Event(self, "manager", "add", <<VAddr(caller), VAddr(manager)>>)>>,
            VUnit)

\* remove_manager without its is_authorized test
Factory_remove_managerNoAuth(w, self, caller, manager, auth, invoker) ==
  LET st == StorageOf(w, self) IN
  IF ~RequireAuth(caller, auth, invoker) THEN Panic(w, <<>>, "Auth")
  ELSE IF ~IsSome(st.managers) THEN Panic(w, <<>>, "ManagersNotFound")
  ELSE
    LET managers == Get(st.managers) IN
    IF Contains(managers, manager)
    THEN Ok(SetStorage(w, self, [st EXCEPT !.managers =
                Some(VecRemove(managers, Position(managers, manager)))]),
            <<Event(self, "manager", "remove", <<VAddr(caller), VAddr(manager)>>)>>,
            VUnit)
    ELSE Panic(w, <<>>, "ManagerNotFound")

Factory_remove_manager(w, self, caller, manager, auth, invoker) ==
  LET st == StorageOf(w, self) IN
  IF ~RequireAuth(caller, auth, invoker) THEN Panic(w, <<>>, "Auth")
  ELSE IF ~IsSome(st.creator) THEN Panic(w, <<>>, "ScorerFactoryCreatorNotFound")
  ELSE IF ~Factory_is_authorized(st, caller) THEN Panic(w, <<>>, "Unauthorized")
  ELSE IF ~IsSome(st.managers) THEN Panic(w, <<>>, "ManagersNotFound")
  ELSE
    LET managers == Get(st.managers) IN
    IF Contains(managers, manager)
    THEN Ok(SetStorage(w, self, [st EXCEPT !.managers =
                Some(VecRemove(managers, Position(managers, manager)))]),
            <<Event(self, "manager", "remove", <<VAddr(caller), VAddr(manager)>>)>>,
            VUnit)
    ELSE Panic(w, <<>>, "ManagerNotFound")

\* get_scorers(): the stored directory; panics when none was stored
Factory_get_scorers(st) ==
  IF IsSome(st.scorers) THEN [ok |-> TRUE, err |-> "", map |-> Get(st.scorers)]
  ELSE [ok |-> FALSE, err |-> "ScorersWereNotFound", map |-> EmptyMap]

\* remove_scorer that publishes the removal but keeps the entry
Factory_remove_scorerKeep(w, self, caller, scorer_address, auth, invoker) ==
  LET st == StorageOf(w, self) IN
  IF ~RequireAuth(caller, auth, invoker) THEN Panic(w, <<>>, "Auth")
  ELSE IF ~Factory_is_manager(st, caller) THEN Panic(w, <<>>, "Unauthorized")
  ELSE IF ~IsSome(st.scorers) THEN Panic(w, <<>>, "ScorersWereNotFound")
  ELSE
    LET created_scorers == Get(st.scorers) IN
    IF scorer_address \notin DOMAIN created_scorers THEN Panic(w, <<>>, "ScorerNotFound")
    ELSE
      LET md == created_scorers[scorer_address] IN
      Ok(SetStorage(w, self, [st EXCEPT !.scorers = Some(created_scorers)]),
         <<Event(self, "scorer", "remove",
                 <<VAddr(caller), VAddr(scorer_address), VStr(md[1]), VStr(md[2]), VStr(md[3])>>)>>,
         VUnit)

\* remove_scorer that lets the creator in as add_manager does
Factory_remove_scorerByCreator(w, self, caller, scorer_address, auth, invoker) ==
  LET st == StorageOf(w, self) IN
  IF ~RequireAuth(caller, auth, invoker) THEN Panic(w, <<>>, "Auth")
  ELSE IF ~IsSome(st.creator) \/ ~Factory_is_authorized(st, caller) THEN Panic(w, <<>>, "Unauthorized")
  ELSE IF ~IsSome(st.scorers) THEN Panic(w, <<>>, "ScorersWereNotFound")
  ELSE
    LET created_scorers == Get(st.scorers) IN
    IF scorer_address \notin DOMAIN created_scorers THEN Panic(w, <<>>, "ScorerNotFound")
    ELSE
      LET md == created_scorers[scorer_address] IN
      Ok(SetStorage(w, self, [st EXCEPT !.scorers = Some(MapRemove(created_scorers, scorer_address))]),
         <<Event(self, "scorer", "remove",
                 <<VAddr(caller), VAddr(scorer_address), VStr(md[1]), VStr(md[2]), VStr(md[3])>>)>>,
         VUnit)

\* remove_scorer that also clears the storage of the removed scorer
Factory_remove_scorerReset(w, self, caller, scorer_address, auth, invoker) ==
  LET st == StorageOf(w, self) IN
  IF ~RequireAuth(caller, auth, invoker) THEN Panic(w, <<>>, "Auth")
  ELSE IF ~Factory_is_manager(st, caller) THEN Panic(w, <<>>, "Unauthorized")
  ELSE IF ~IsSome(st.scorers) THEN Panic(w, <<>>, "ScorersWereNotFound")
  ELSE
    LET created_scorers == Get(st.scorers) IN
    IF scorer_address \notin DOMAIN created_scorers THEN Panic(w, <<>>, "ScorerNotFound")
    ELSE
      LET md == created_scorers[scorer_address] IN
      Ok(SetStorage(SetStorage(w, scorer_address, EmptyStorage), self,
                    [st EXCEPT !.scorers = Some(MapRemove(created_scorers, scorer_address))]),
         <<Event(self, "scorer", "remove",
                 <<VAddr(caller), VAddr(scorer_address), VStr(md[1]), VStr(md[2]), VStr(md[3])>>)>>,
         VUnit)

Factory_remove_scorer(w, self, caller, scorer_address, auth, invoker) ==
  LET st == StorageOf(w, self) IN
  IF ~RequireAuth(caller, auth, invoker) THEN Panic(w, <<>>, "Auth")
  ELSE IF ~Factory_is_manager(st, caller) THEN Panic(w, <<>>, "Unauthorized")
  ELSE IF ~IsSome(st.scorers) THEN Panic(w, <<>>, "ScorersWereNotFound")
  ELSE
    LET created_scorers == Get(st.scorers) IN
    IF scorer_address \notin DOMAIN created_scorers THEN Panic(w, <<>>, "ScorerNotFound")
    ELSE
      LET md == created_scorers[scorer_address] IN
      Ok(SetStorage(w, self, [st EXCEPT !.scorers = Some(MapRemove(created_scorers, scorer_address))]),
         <<Event(self, "scorer", "remove",
                 <<VAddr(caller), VAddr(scorer_address), VStr(md[1]), VStr(md[2]), VStr(md[3])>>)>>,
         VUnit)

\* ================================================================ dispatch
\* env.invoke_contract(&contract, &func, args): run the function of the code
\* installed at the address; traps when there is no such contract or
\* function, or the arguments do not convert to the parameter types.
InvokeContract(w, contract, func, args, auth, invoker) ==
  IF ~Exists(w, contract) THEN Panic(w, <<>>, "HostError")
  ELSE
    LET wasm == w.inst[contract].wasm IN
    CASE wasm = WASM_DEPLOYER /\ func = "deploy"
           /\ TypesAre(args, <<"addr", "hash", "bytes", "sym", "vals">>) ->
           Deployer_deploy(w, contract, args[1].a, args[2].s, args[3].a, args[4].s,
                           args[5].tup, auth, invoker)
      [] wasm = WASM_FACTORY /\ func = "initialize" /\ TypesAre(args, <<"addr", "hash">>) ->
           Factory_initialize(w, contract, args[1].a, args[2].s, auth, invoker)
      [] wasm = WASM_FACTORY /\ func = "create_scorer"
           /\ TypesAre(args, <<"addr", "bytes", "sym", "vals">>) ->
           Factory_create_scorer(w, contract, args[1].a, args[2].a, args[3].s, args[4].tup,
                                 auth, invoker)
      [] wasm = WASM_FACTORY /\ func = "add_manager" /\ TypesAre(args, <<"addr", "addr">>) ->
           Factory_add_manager(w, contract, args[1].a, args[2].a, auth, invoker)
      [] wasm = WASM_FACTORY /\ func = "remove_manager" /\ TypesAre(args, <<"addr", "addr">>) ->
           Factory_remove_manager(w, contract, args[1].a, args[2].a, auth, invoker)
      [] wasm = WASM_FACTORY /\ func = "remove_scorer" /\ TypesAre(args, <<"addr", "addr">>) ->
           Factory_remove_scorer(w, contract, args[1].a, args[2].a, auth, invoker)
      [] IsScorerCode(wasm) /\ func = "initialize"
           /\ TypesAre(args, <<"addr", "map", "str", "str", "str">>) ->
           Scorer_initialize(w, contract, args[1].a, args[2].m, args[3].s, args[4].s,
                             args[5].s, auth, invoker)
      [] IsScorerCode(wasm) /\ func = "contract_version" /\ TypesAre(args, <<>>) ->
           Scorer_contract_version(w, contract)
      [] IsScorerCode(wasm) /\ func = "upgrade" /\ TypesAre(args, <<"hash">>) ->
           Scorer_upgrade(w, contract, args[1].s, auth, invoker)
      [] IsScorerCode(wasm) /\ func = "add_manager" /\ TypesAre(args, <<"addr", "addr">>) ->
           Scorer_add_manager(w, contract, args[1].a, args[2].a, auth, invoker)
      [] IsScorerCode(wasm) /\ func = "remove_manager" /\ TypesAre(args, <<"addr", "addr">>) ->
           Scorer_remove_manager(w, contract, args[1].a, args[2].a, auth, invoker)
      [] IsScorerCode(wasm) /\ func = "add_user" /\ TypesAre(args, <<"addr">>) ->
           Scorer_add_user(w, contract, args[1].a, auth, invoker)
      [] IsScorerCode(wasm) /\ func = "remove_user" /\ TypesAre(args, <<"addr">>) ->
           Scorer_remove_user(w, contract, args[1].a, auth, invoker)
      [] IsScorerCode(wasm) /\ func = "add_badge"
           /\ TypesAre(args, <<"addr", "str", "addr", "u32">>) ->
           Scorer_add_badge(w, contract, args[1].a, args[2].s, args[3].a, args[4].a,
                            auth, invoker)
      [] IsScorerCode(wasm) /\ func = "remove_badge"
           /\ TypesAre(args, <<"addr", "str", "addr">>) ->
           Scorer_remove_badge(w, contract, args[1].a, args[2].s, args[3].a, auth, invoker)
      [] OTHER -> Panic(w, <<>>, "HostError")

\* A top-level invocation is one transaction: it commits what it wrote and
\* published, or, when it panicked, nothing.
CommitAlways(w, r) == r.w

Commit(w, r) == IF r.ok THEN r.w ELSE w

Published(r) == IF r.ok THEN r.ev ELSE <<>>

\* =================================================================== state
VARIABLES
  world,   \* the ledger: the contract instances and their storage
  last,    \* the last committed top-level invocation, its result and events
  calls    \* how many invocations have been committed

vars == <<world, last, calls>>

NoCall ==
  [contract |-> 0, func |-> "", args |-> <<>>, auth |-> {}, ret |-> VUnit, events |-> <<>>]

\* The outcome of the top-level invocation of func on contract, signed by auth.
Run(w, contract, func, args, auth) == InvokeContract(w, contract, func, args, auth, 0)

\* what is on the ledger after the invocation
After(w, c, func, args, auth) == Commit(w, Run(w, c, func, args, auth))

\* The Deployer, a ScorerFactory and a Scorer registered on the ledger, none
\* initialized (env.register_contract in the tests).
Registered ==
  [inst |-> (DEPLOYER :> Instance(WASM_DEPLOYER, EmptyStorage))
            @@ (FACTORY :> Instance(WASM_FACTORY, EmptyStorage))
            @@ (SCORER :> Instance(WASM_SCORER, EmptyStorage))]

\* The test setup: the factory initialized by account 1 with the scorer code.
FactoryReady ==
  After(Registered, FACTORY, "initialize", <<VAddr(1), VHash(WASM_SCORER)>>, {1})

Init ==
  /\ world \in {Registered, FactoryReady}
  /\ last = NoCall
  /\ calls = 0

\* the ledger before any initialization
InitRegistered ==
  /\ world = Registered
  /\ last = NoCall
  /\ calls = 0

\* One top-level invocation.  An invocation that panics leaves no trace on
\* the ledger: the step changes nothing.
Call(contract, func, args, auth) ==
  /\ Exists(world, contract)
  /\ \E r \in {Run(world, contract, func, args, auth)} :
     /\ world' = Commit(world, r)
     /\ last' = IF r.ok
                THEN [contract |-> contract, func |-> func, args |-> args, auth |-> auth,
                      ret |-> r.ret, events |-> Published(r)]
                ELSE last

IsDeployer(c) == Exists(world, c) /\ world.inst[c].wasm = WASM_DEPLOYER
IsFactory(c) == Exists(world, c) /\ world.inst[c].wasm = WASM_FACTORY
IsScorer(c) == Exists(world, c) /\ IsScorerCode(world.inst[c].wasm)

\* -------------------------------------------------- one action per operation
deploy(c, deployer, wasm_hash, salt, ic, auth) ==
  /\ IsDeployer(c)
  /\ Call(c, "deploy", <<VAddr(deployer), VHash(wasm_hash), VBytes(salt), VSym(ic.fn),
                         VVals(ic.args)>>, auth)

factory_initialize(c, scorer_creator, scorer_wasm_hash, auth) ==
  /\ IsFactory(c)
  /\ Call(c, "initialize", <<VAddr(scorer_creator), VHash(scorer_wasm_hash)>>, auth)

create_scorer(c, deployer, salt, ic, auth) ==
  /\ IsFactory(c)
  /\ Call(c, "create_scorer", <<VAddr(deployer), VBytes(salt), VSym(ic.fn),
                                VVals(ic.args)>>, auth)

factory_add_manager(c, caller, manager, auth) ==
  /\ IsFactory(c)
  /\ Call(c, "add_manager", <<VAddr(caller), VAddr(manager)>>, auth)

factory_remove_manager(c, caller, manager, auth) ==
  /\ IsFactory(c)
  /\ Call(c, "remove_manager", <<VAddr(caller), VAddr(manager)>>, auth)

remove_scorer(c, caller, scorer_address, auth) ==
  /\ IsFactory(c)
  /\ Call(c, "remove_scorer", <<VAddr(caller), VAddr(scorer_address)>>, auth)

initialize(c, scorer_creator, scorer_badges, name, description, icon, auth) ==
  /\ IsScorer(c)
  /\ Call(c, "initialize", <<VAddr(scorer_creator), VMap(scorer_badges), VStr(name),
                             VStr(description), VStr(icon)>>, auth)

upgrade(c, new_wasm_hash, auth) ==
  /\ IsScorer(c)
  /\ Call(c, "upgrade", <<VHash(new_wasm_hash)>>, auth)

add_manager(c, sender, new_manager, auth) ==
  /\ IsScorer(c)
  /\ Call(c, "add_manager", <<VAddr(sender), VAddr(new_manager)>>, auth)

remove_manager(c, sender, manager_to_remove, auth) ==
  /\ IsScorer(c)
  /\ Call(c, "remove_manager", <<VAddr(sender), VAddr(manager_to_remove)>>, auth)

add_user(c, user, auth) ==
  /\ IsScorer(c)
  /\ Call(c, "add_user", <<VAddr(user)>>, auth)

remove_user(c, user, auth) ==
  /\ IsScorer(c)
  /\ Call(c, "remove_user", <<VAddr(user)>>, auth)

add_badge(c, sender, name, issuer, score, auth) ==
  /\ IsScorer(c)
  /\ Call(c, "add_badge", <<VAddr(sender), VStr(name), VAddr(issuer), VU32(score)>>, auth)

remove_badge(c, sender, name, issuer, auth) ==
  /\ IsScorer(c)
  /\ Call(c, "remove_badge", <<VAddr(sender), VStr(name), VAddr(issuer)>>, auth)

\* ------------------------------------------------------------ input spaces
Auths == SUBSET Accounts
Names == {"", "n"}
Badge == BadgeId("b", 1)
BadgeMaps == {EmptyMap, (Badge :> 100)}

InitCall(fn, args) == [fn |-> fn, args |-> args]
InitializeCalls ==
  {InitCall("initialize", <<VAddr(cr), VMap(EmptyMap), VStr(n), VStr("d"), VStr("i")>>) :
     cr \in {1, FACTORY}, n \in Names}
OtherInitCalls ==
  {InitCall("contract_version", <<>>),
   InitCall("add_user", <<VAddr(1)>>),
   InitCall("remove_badge", <<VAddr(1), VStr("b"), VAddr(1)>>)}
\* the factory's initialize, as the integration tests pass it to deploy
FactoryInitCall == InitCall("initialize", <<VAddr(1), VHash(WASM_SCORER)>>)
InitCalls == InitializeCalls \cup OtherInitCalls \cup {FactoryInitCall}

\* the init calls handed to create_scorer under SpecFactory: one that
\* succeeds, one whose initialize fails, one with too few arguments
FactoryInits ==
  {InitCall("initialize", <<VAddr(1), VMap(EmptyMap), VStr("n"), VStr("d"), VStr("i")>>),
   InitCall("initialize", <<VAddr(1), VMap(EmptyMap), VStr(""), VStr("d"), VStr("i")>>),
   InitCall("add_user", <<VAddr(1)>>)}

\* the code hashes handed to deploy
DeployWasm == {WASM_SCORER, WASM_FACTORY, WASM_MISSING}

Contracts == DOMAIN world.inst

\* ----------------------------------------------------------- specification
\* every operation of the Deployer, on the deployer contracts
DeployerStep ==
  \E c \in Contracts, deployer \in {1, DEPLOYER},
     wasm_hash \in DeployWasm, salt \in Salts, ic \in InitCalls, auth \in Auths :
     deploy(c, deployer, wasm_hash, salt, ic, auth)

\* initialize, create_scorer and remove_scorer of the factories in targets
FactoryStep(targets, inits) ==
  \/ \E c \in targets, scorer_creator \in Accounts, auth \in Auths :
        factory_initialize(c, scorer_creator, WASM_SCORER, auth)
  \/ \E c \in targets, deployer \in {1, FACTORY}, salt \in Salts, ic \in inits,
        auth \in Auths :
        create_scorer(c, deployer, salt, ic, auth)
  \/ \E c \in targets, caller \in Accounts, scorer_address \in Contracts,
        auth \in Auths :
        remove_scorer(c, caller, scorer_address, auth)

\* the manager list operations of the factories in targets
FactoryManagerStep(targets) ==
  \/ \E c \in targets, caller \in Accounts, manager \in Accounts, auth \in Auths :
        factory_add_manager(c, caller, manager, auth)
  \/ \E c \in targets, caller \in Accounts, manager \in Accounts, auth \in Auths :
        factory_remove_manager(c, caller, manager, auth)

\* initialize of the scorers in targets, by anyone
ScorerInitStep(targets) ==
  \E c \in targets, scorer_creator \in Accounts, scorer_badges \in BadgeMaps,
     name \in Names, auth \in Auths :
     initialize(c, scorer_creator, scorer_badges, name, "d", "i", auth)

\* the manager list operations of the scorers in targets
ScorerManagerStep(targets) ==
  \/ \E c \in targets, sender \in Accounts, new_manager \in Accounts, auth \in Auths :
        add_manager(c, sender, new_manager, auth)
  \/ \E c \in targets, sender \in Accounts, manager_to_remove \in Accounts,
        auth \in Auths :
        remove_manager(c, sender, manager_to_remove, auth)

\* the user, badge and upgrade operations of the scorers in targets
ScorerDataStep(targets) ==
  \/ \E c \in targets, new_wasm_hash \in {WASM_SCORER_NEW, WASM_MISSING}, auth \in Auths :
        upgrade(c, new_wasm_hash, auth)
  \/ \E c \in targets, user \in Accounts, auth \in Auths :
        add_user(c, user, auth)
  \/ \E c \in targets, user \in Accounts, auth \in Auths :
        remove_user(c, user, auth)
  \/ \E c \in targets, sender \in Accounts, name \in {"", "b"},
        score \in {0, 100, MaxScore, MaxScore + 1}, auth \in Auths :
        add_badge(c, sender, name, 1, score, auth)
  \/ \E c \in targets, sender \in Accounts, auth \in Auths :
        remove_badge(c, sender, "b", 1, auth)

\* an invocation under Spec: at most MaxCalls invocations are committed
Counted(step) ==
  /\ calls < MaxCalls
  /\ step
  /\ calls' = IF <<world, last>>' # <<world, last>> THEN calls + 1 ELSE calls

\* an invocation under the focused specifications, which do not count
Uncounted(step) == step /\ UNCHANGED calls

\* Spec: every operation of the three contracts, on every contract on the
\* ledger, up to MaxCalls committed invocations.
Next ==
  \/ Counted(DeployerStep)
  \/ Counted(FactoryStep(Contracts, InitCalls))
  \/ Counted(FactoryManagerStep(Contracts))
  \/ Counted(ScorerInitStep(Contracts))
  \/ Counted(ScorerManagerStep(Contracts))
  \/ Counted(ScorerDataStep(Contracts))

Spec == Init /\ [][Next]_vars

\* SpecScorer: the Scorer registered on the ledger, all its operations.
NextScorer ==
  \/ Uncounted(ScorerInitStep({SCORER}))
  \/ Uncounted(ScorerManagerStep({SCORER}))
  \/ Uncounted(ScorerDataStep({SCORER}))

SpecScorer == InitRegistered /\ [][NextScorer]_vars

\* SpecManagers: the manager lists of the registered Scorer and ScorerFactory.
NextManagers ==
  \/ Uncounted(ScorerInitStep({SCORER}))
  \/ Uncounted(ScorerManagerStep({SCORER}))
  \/ Uncounted(\E scorer_creator \in Accounts, auth \in Auths :
                 factory_initialize(FACTORY, scorer_creator, WASM_SCORER, auth))
  \/ Uncounted(FactoryManagerStep({FACTORY}))

SpecManagers == InitRegistered /\ [][NextManagers]_vars

\* SpecFactory: the registered ScorerFactory, all its operations.
NextFactory ==
  \/ Uncounted(FactoryStep({FACTORY}, FactoryInits))
  \/ Uncounted(FactoryManagerStep({FACTORY}))

SpecFactory == InitRegistered /\ [][NextFactory]_vars

\* SpecOrder: the manager lists of the registered Scorer and ScorerFactory
\* with four addresses to list: the accounts and two contract addresses.
ManagerAddresses == Accounts \cup {DEPLOYER, FACTORY}

NextOrder ==
  \/ Uncounted(\E auth \in Auths :
                 initialize(SCORER, 1, EmptyMap, "n", "d", "i", auth))
  \/ Uncounted(\E sender \in Accounts, new_manager \in ManagerAddresses :
                 add_manager(SCORER, sender, new_manager, {sender}))
  \/ Uncounted(\E sender \in Accounts, manager_to_remove \in ManagerAddresses :
                 remove_manager(SCORER, sender, manager_to_remove, {sender}))
  \/ Uncounted(\E auth \in Auths :
                 factory_initialize(FACTORY, 1, WASM_SCORER, auth))
  \/ Uncounted(\E caller \in Accounts, manager \in ManagerAddresses :
                 factory_add_manager(FACTORY, caller, manager, {caller}))
  \/ Uncounted(\E caller \in Accounts, manager \in ManagerAddresses :
                 factory_remove_manager(FACTORY, caller, manager, {caller}))

SpecOrder == InitRegistered /\ [][NextOrder]_vars

\* ================================================================== claims
DeployArgs(deployer, wasm_hash, salt, ic) ==
  <<VAddr(deployer), VHash(wasm_hash), VBytes(salt), VSym(ic.fn), VVals(ic.args)>>
CreateArgs(deployer, salt, ic) ==
  <<VAddr(deployer), VBytes(salt), VSym(ic.fn), VVals(ic.args)>>

Deployers == Accounts \cup {DEPLOYER, FACTORY}
DeployerContracts == {c \in Contracts : world.inst[c].wasm = WASM_DEPLOYER}
FactoryContracts == {c \in Contracts : world.inst[c].wasm = WASM_FACTORY}
ScorerContracts == {c \in Contracts : IsScorerCode(world.inst[c].wasm)}

\* C1: Deployer.deploy called again with a (deployer, salt) pair that an
\* earlier deploy used fails, whatever wasm_hash, init_fn and init_args it
\* carries: a committed deploy returned DeterministicAddress(deployer, salt),
\* the new contract exists there, contracts never disappear, and every
\* deploy whose derived address is occupied fails.
C1_Inv ==
  /\ last.func = "deploy" =>
       LET address == DeterministicAddress(last.args[1].a, last.args[3].a) IN
       /\ last.ret.tup[1] = VAddr(address)
       /\ Exists(world, address)
  /\ \A c \in DeployerContracts, deployer \in Deployers, salt \in Salts :
       Exists(world, DeterministicAddress(deployer, salt))
       => \A wasm_hash \in DeployWasm, ic \in InitCalls, auth \in Auths :
            ~Run(world, c, "deploy", DeployArgs(deployer, wasm_hash, salt, ic), auth).ok

C1_DeployNoReplay ==
  /\ []C1_Inv
  /\ [][DOMAIN world.inst \subseteq DOMAIN world'.inst]_vars

\* C1 witness: a deploy was committed and the same (deployer, salt) with
\* another wasm hash and another init call is refused.
C1_Witness ==
  /\ last.func = "deploy"
  /\ last.args[2].s = WASM_SCORER
  /\ last.args[4].s = "initialize"
  /\ ~Run(world, last.contract, "deploy",
          DeployArgs(last.args[1].a, WASM_SCORER_NEW, last.args[3].a,
                     InitCall("contract_version", <<>>)), Accounts).ok

\* an init call that succeeds on a fresh scorer when its creator signed
GoodInit(creator) ==
  InitCall("initialize", <<VAddr(creator), VMap(EmptyMap), VStr("n"), VStr("d"), VStr("i")>>)

\* the init call that succeeds on a fresh instance of the code
ValidInit(wasm_hash) == IF wasm_hash = WASM_FACTORY THEN FactoryInitCall ELSE GoodInit(1)

\* deploy passes its authorization check, instantiates the code, and the
\* init call on the new contract fails
DeployInitFails(w, c, deployer, wasm_hash, salt, ic, auth) ==
  /\ deployer = c \/ RequireAuth(deployer, auth, 0)
  /\ \E d \in {HostDeploy(w, deployer, salt, wasm_hash)} :
       d.ok /\ ~InvokeContract(d.w, d.ret.a, ic.fn, ic.args, auth, c).ok

\* the same for create_scorer, which deploys the stored scorer code hash
CreateInitFails(w, c, deployer, salt, ic, auth) ==
  /\ deployer = c \/ RequireAuth(deployer, auth, 0)
  /\ Len(ic.args) >= 3
  /\ IsSome(StorageOf(w, c).wasm_hash)
  /\ \E d \in {HostDeploy(w, deployer, salt, Get(StorageOf(w, c).wasm_hash))} :
       d.ok /\ ~InvokeContract(d.w, d.ret.a, ic.fn, ic.args, auth, c).ok

\* C2: when the init call made by deploy (or by create_scorer) fails, the
\* whole invocation fails and no contract exists at
\* DeterministicAddress(deployer, salt) afterwards; a later deploy
\* (create_scorer) with the same (deployer, salt) and a valid init call,
\* signed by deployer and creator, succeeds and the contract then exists.
C2_InitFailureRollsBack ==
  /\ \A c \in DeployerContracts, deployer \in Deployers, wasm_hash \in DeployWasm,
        salt \in Salts, ic \in InitCalls, auth \in Auths :
        DeployInitFails(world, c, deployer, wasm_hash, salt, ic, auth) =>
          \E r \in {Run(world, c, "deploy", DeployArgs(deployer, wasm_hash, salt, ic), auth)} :
            /\ ~r.ok
            /\ ~Exists(Commit(world, r), DeterministicAddress(deployer, salt))
            /\ \E r2 \in {Run(Commit(world, r), c, "deploy",
                              DeployArgs(deployer, wasm_hash, salt, ValidInit(wasm_hash)),
                              Accounts)} :
                 /\ r2.ok
                 /\ Exists(Commit(Commit(world, r), r2), DeterministicAddress(deployer, salt))
  /\ \A c \in FactoryContracts, deployer \in Deployers, salt \in Salts,
        ic \in InitCalls, auth \in Auths :
        CreateInitFails(world, c, deployer, salt, ic, auth) =>
          \E r \in {Run(world, c, "create_scorer", CreateArgs(deployer, salt, ic), auth)} :
            /\ ~r.ok
            /\ ~Exists(Commit(world, r), DeterministicAddress(deployer, salt))
            /\ \E r2 \in {Run(Commit(world, r), c, "create_scorer",
                              CreateArgs(deployer, salt, GoodInit(1)), Accounts)} :
                 /\ r2.ok
                 /\ Exists(Commit(Commit(world, r), r2), DeterministicAddress(deployer, salt))

\* C2 witness: after some deployment was committed, a deploy and a
\* create_scorer with an empty scorer name each instantiate the contract,
\* fail in its initialize, and leave the address free.
C2_Witness ==
  /\ last.func = "create_scorer"
  /\ \E salt \in Salts :
       LET bad == InitCall("initialize",
                           <<VAddr(1), VMap(EmptyMap), VStr(""), VStr("d"), VStr("i")>>)
           address == DeterministicAddress(1, salt)
       IN /\ DeployInitFails(world, DEPLOYER, 1, WASM_SCORER, salt, bad, {1})
          /\ CreateInitFails(world, FACTORY, 1, salt, bad, {1})
          /\ Exists(Run(world, DEPLOYER, "deploy",
                         DeployArgs(1, WASM_SCORER, salt, bad), {1}).w, address)
          /\ Exists(Run(world, FACTORY, "create_scorer",
                         CreateArgs(1, salt, bad), {1}).w, address)
          /\ ~Exists(world, address)

\* C3: in the state a committed deploy or create_scorer with init_fn =
\* initialize leaves behind, the new contract is already initialized with
\* the creator given in init_args, and nobody's initialize on it succeeds.
C3_NoFrontRun ==
  (last.func \in {"deploy", "create_scorer"}
     /\ (IF last.func = "deploy" THEN last.args[4].s ELSE last.args[3].s) = "initialize")
  => LET salt == IF last.func = "deploy" THEN last.args[3].a ELSE last.args[2].a
         init_args == IF last.func = "deploy" THEN last.args[5].tup ELSE last.args[4].tup
         address == DeterministicAddress(last.args[1].a, salt)
     IN /\ Exists(world, address)
        /\ IsSome(StorageOf(world, address).initialized)
        /\ Get(StorageOf(world, address).initialized)
        /\ StorageOf(world, address).creator = Some(init_args[1].a)
        /\ \A cr \in Deployers, name \in Names, auth \in SUBSET Deployers :
             /\ ~Run(world, address, "initialize",
                     <<VAddr(cr), VMap(EmptyMap), VStr(name), VStr("d"), VStr("i")>>, auth).ok
             /\ ~Run(world, address, "initialize",
                     <<VAddr(cr), VHash(WASM_SCORER)>>, auth).ok

\* C3 witness: a scorer created by create_scorer for creator 1; account 2,
\* signing for itself, cannot initialize it.
C3_Witness ==
  /\ last.func = "create_scorer"
  /\ last.args[3].s = "initialize"
  /\ last.args[4].tup[1].a = 1
  /\ ~Run(world, last.ret.a, "initialize",
          <<VAddr(2), VMap(EmptyMap), VStr("n"), VStr("d"), VStr("i")>>, {2}).ok

\* C4: deploy and create_scorer with a deployer other than the executing
\* contract fail, before anything is written or published, unless deployer
\* authorized the invocation; with the executing contract itself as deployer
\* they are not refused for lack of authorization: they succeed with no
\* signature at all when the address is free and the init call needs none.
C4_DeployerAuth ==
  /\ \A c \in DeployerContracts, deployer \in Deployers, wasm_hash \in DeployWasm,
        salt \in Salts, ic \in InitCalls, auth \in Auths :
        \E r \in {Run(world, c, "deploy", DeployArgs(deployer, wasm_hash, salt, ic), auth)} :
          /\ (deployer # c /\ deployer \notin auth) =>
               (~r.ok /\ r.w = world /\ r.ev = <<>>)
          /\ (deployer = c /\ auth = {} /\ wasm_hash \in Uploaded
                /\ ~Exists(world, DeterministicAddress(deployer, salt))
                /\ ic.fn = "contract_version" /\ IsScorerCode(wasm_hash)) => r.ok
  /\ \A c \in FactoryContracts, deployer \in Deployers, salt \in Salts,
        ic \in InitCalls, auth \in Auths :
        \E r \in {Run(world, c, "create_scorer", CreateArgs(deployer, salt, ic), auth)} :
          /\ (deployer # c /\ deployer \notin auth) =>
               (~r.ok /\ r.w = world /\ r.ev = <<>>)
          /\ (deployer = c /\ auth = {} /\ Factory_is_initialized(StorageOf(world, c))
                /\ ~Exists(world, DeterministicAddress(deployer, salt))
                /\ ic = GoodInit(c)) => r.ok

\* C4 witness: the factory, as its own deployer, created a scorer in an
\* invocation nobody signed, and the same call with account 1 as deployer
\* and no signature is refused.
C4_Witness ==
  /\ last.func = "create_scorer"
  /\ last.args[1].a = last.contract
  /\ last.auth = {}
  /\ \E salt \in Salts :
       /\ ~Exists(world, DeterministicAddress(1, salt))
       /\ ~Run(world, last.contract, "create_scorer",
               CreateArgs(1, salt, GoodInit(last.contract)), {}).ok

\* ------------------------------------------------- invocations, as data
OpCall(func, args) == [func |-> func, args |-> args]

ScorerInitArgs ==
  {<<VAddr(cr), VMap(b), VStr(n), VStr(d), VStr(i)>> :
     cr \in Accounts, b \in BadgeMaps, n \in Names, d \in {"", "d"}, i \in {"", "i"}}

\* the state-changing operations of the Scorer other than initialize
ScorerCalls ==
  {OpCall("add_manager", <<VAddr(a), VAddr(b)>>) : a \in Accounts, b \in Accounts}
  \cup {OpCall("remove_manager", <<VAddr(a), VAddr(b)>>) : a \in Accounts, b \in Accounts}
  \cup {OpCall("add_user", <<VAddr(a)>>) : a \in Accounts}
  \cup {OpCall("remove_user", <<VAddr(a)>>) : a \in Accounts}
  \cup {OpCall("add_badge", <<VAddr(a), VStr(n), VAddr(1), VU32(sc)>>) :
          a \in Accounts, n \in {"", "b"}, sc \in {0, 100, MaxScore, MaxScore + 1}}
  \cup {OpCall("remove_badge", <<VAddr(a), VStr("b"), VAddr(1)>>) : a \in Accounts}
  \cup {OpCall("upgrade", <<VHash(h)>>) : h \in {WASM_SCORER_NEW, WASM_MISSING}}

\* the state-changing operations of the ScorerFactory other than initialize
FactoryCalls ==
  {OpCall("add_manager", <<VAddr(a), VAddr(b)>>) : a \in Accounts, b \in Accounts}
  \cup {OpCall("remove_manager", <<VAddr(a), VAddr(b)>>) : a \in Accounts, b \in Accounts}
  \cup {OpCall("create_scorer", CreateArgs(d, salt, ic)) :
          d \in {1, FACTORY}, salt \in Salts, ic \in InitCalls}
  \cup {OpCall("remove_scorer", <<VAddr(a), VAddr(x)>>) : a \in Accounts, x \in Contracts}

FactoryInitializeCalls ==
  {OpCall("initialize", <<VAddr(cr), VHash(h)>>) :
     cr \in Accounts, h \in {WASM_SCORER, WASM_SCORER_NEW, WASM_MISSING}}

DeployerCalls ==
  {OpCall("deploy", DeployArgs(d, h, salt, ic)) :
     d \in {1, DEPLOYER}, h \in DeployWasm, salt \in Salts, ic \in InitCalls}

\* every operation of the code installed at c
CallsOn(c) ==
  IF IsDeployer(c) THEN DeployerCalls
  ELSE IF IsFactory(c) THEN FactoryCalls \cup FactoryInitializeCalls
  ELSE ScorerCalls \cup {OpCall("initialize", a) : a \in ScorerInitArgs}

\* C5: on an initialized Scorer every initialize, whatever its arguments,
\* empty display strings included, fails with ContractAlreadyInitialized and
\* leaves the contract as it was.
C5_ReplayAlreadyInitialized ==
  \A c \in ScorerContracts :
    Scorer_is_initialized(StorageOf(world, c)) =>
      \A args \in ScorerInitArgs, auth \in Auths :
        \E r \in {Run(world, c, "initialize", args, auth)} :
          /\ ~r.ok
          /\ r.err = "ContractAlreadyInitialized"
          /\ Commit(world, r) = world

\* C6: on an initialized ScorerFactory every initialize fails with
\* ContractAlreadyInitialized, having written nothing: creator, managers,
\* scorer code hash and directory are what they were.
C6_FactoryReplayRejected ==
  \A c \in FactoryContracts :
    Factory_is_initialized(StorageOf(world, c)) =>
      \A call \in FactoryInitializeCalls, auth \in Auths :
        \E r \in {Run(world, c, "initialize", call.args, auth)} :
          /\ ~r.ok
          /\ r.err = "ContractAlreadyInitialized"
          /\ StorageOf(r.w, c) = StorageOf(world, c)
          /\ Commit(world, r) = world

\* C6 witness: a factory with a second manager and a scorer in its
\* directory, whose initialize, signed by the new creator, is refused.
C6_Witness ==
  /\ Factory_is_initialized(StorageOf(world, FACTORY))
  /\ Len(Get(StorageOf(world, FACTORY).managers)) = 2
  /\ DOMAIN Get(StorageOf(world, FACTORY).scorers) # {}
  /\ Run(world, FACTORY, "initialize", <<VAddr(2), VHash(WASM_SCORER_NEW)>>, {2}).err
       = "ContractAlreadyInitialized"

C8_UninitializedRejectsAll ==
  /\ \A c \in ScorerContracts :
       ~Scorer_is_initialized(StorageOf(world, c)) =>
         \A call \in ScorerCalls, auth \in Auths :
           \E r \in {Run(world, c, call.func, call.args, auth)} : ~r.ok /\ r.w = world
  /\ \A c \in FactoryContracts :
       ~Factory_is_initialized(StorageOf(world, c)) =>
         \A call \in FactoryCalls, auth \in Auths :
           \E r \in {Run(world, c, call.func, call.args, auth)} : ~r.ok /\ r.w = world

\* the stored manager list of c, empty when the slot is absent
ManagersOf(w, c) == IF IsSome(StorageOf(w, c).managers) THEN Get(StorageOf(w, c).managers) ELSE <<>>

\* C9: the stored manager list of every Scorer and ScorerFactory holds no
\* address twice.
C9_ManagersDistinct ==
  \A c \in ScorerContracts \cup FactoryContracts : NoDuplicates(ManagersOf(world, c))

\* C9 witness: add_manager was just committed, and the Scorer and the
\* ScorerFactory both list two managers.
C9_Witness ==
  /\ last.func = "add_manager"
  /\ Len(ManagersOf(world, SCORER)) = 2
  /\ Len(ManagersOf(world, FACTORY)) = 2

\* C10: add_manager by a permitted caller (the creator of a Scorer; the
\* creator or a manager of a ScorerFactory) for a listed address fails with
\* ManagerAlreadyExists, remove_manager for an address that is not listed
\* fails with ManagerNotFound, and neither writes anything.
C10_ManagerErrors ==
  \A c \in ScorerContracts \cup FactoryContracts :
    IsSome(StorageOf(world, c).creator) =>
      \A caller \in Accounts, manager \in Accounts, auth \in Auths :
        (/\ caller \in auth
         /\ IF IsScorer(c) THEN Get(StorageOf(world, c).creator) = caller
            ELSE Factory_is_authorized(StorageOf(world, c), caller)) =>
          IF Contains(ManagersOf(world, c), manager)
          THEN \E r \in {Run(world, c, "add_manager", <<VAddr(caller), VAddr(manager)>>, auth)} :
                 ~r.ok /\ r.err = "ManagerAlreadyExists" /\ r.w = world
          ELSE \E r \in {Run(world, c, "remove_manager", <<VAddr(caller), VAddr(manager)>>, auth)} :
                 ~r.ok /\ r.err = "ManagerNotFound" /\ r.w = world

\* C10 witness: after a committed remove_manager on the Scorer, whose list
\* still holds its creator, both refusals occur on the Scorer and on the
\* ScorerFactory.
C10_Witness ==
  /\ last.func = "remove_manager"
  /\ last.contract = SCORER
  /\ \A c \in {SCORER, FACTORY} :
       \E caller \in Accounts, present \in Accounts, absent \in Accounts :
         /\ Run(world, c, "add_manager", <<VAddr(caller), VAddr(present)>>, {caller}).err
              = "ManagerAlreadyExists"
         /\ Run(world, c, "remove_manager", <<VAddr(caller), VAddr(absent)>>, {caller}).err
              = "ManagerNotFound"

\* the two manager list operations
ManagerOps == {"add_manager", "remove_manager"}

\* C11: on a Scorer add_manager and remove_manager succeed only for the
\* stored creator; any other sender, a listed manager included, is refused
\* with the list unchanged: with Unauthorized when it signed the call, by
\* require_auth when it did not.
C11_OnlyCreatorManages ==
  \A c \in ScorerContracts :
    IsSome(StorageOf(world, c).creator) =>
      \A func \in ManagerOps, sender \in Accounts, target \in Accounts, auth \in Auths :
        \E r \in {Run(world, c, func, <<VAddr(sender), VAddr(target)>>, auth)} :
          /\ r.ok => (sender = Get(StorageOf(world, c).creator) /\ sender \in auth)
          /\ sender # Get(StorageOf(world, c).creator) =>
               /\ ~r.ok
               /\ r.w = world
               /\ r.err = IF sender \in auth THEN "Unauthorized" ELSE "Auth"

\* C11 witness: the creator just added a second manager; that manager,
\* signing its own calls, can neither add nor remove a manager.
C11_Witness ==
  /\ last.func = "add_manager"
  /\ last.contract = SCORER
  /\ \E m \in Accounts :
       /\ m # Get(StorageOf(world, SCORER).creator)
       /\ Contains(ManagersOf(world, SCORER), m)
       /\ \A func \in ManagerOps :
            Run(world, SCORER, func, <<VAddr(m), VAddr(m)>>, {m}).err = "Unauthorized"

\* C12: on an initialized ScorerFactory add_manager and remove_manager
\* succeed only for a caller that signed the call and is the factory creator
\* or a listed manager; any other caller is refused with the list unchanged:
\* with Unauthorized when it signed, by require_auth when it did not.
C12_FactoryManagerAuth ==
  \A c \in FactoryContracts :
    Factory_is_initialized(StorageOf(world, c)) =>
      \A func \in ManagerOps, caller \in Accounts, manager \in Accounts, auth \in Auths :
        \E r \in {Run(world, c, func, <<VAddr(caller), VAddr(manager)>>, auth)} :
          /\ r.ok => (caller \in auth /\ Factory_is_authorized(StorageOf(world, c), caller))
          /\ ~(caller \in auth /\ Factory_is_authorized(StorageOf(world, c), caller)) =>
               /\ ~r.ok
               /\ r.w = world
               /\ r.err = IF caller \in auth THEN "Unauthorized" ELSE "Auth"

\* C12 witness: a manager that is not the creator just removed a manager
\* (itself), and now its own signed add_manager is refused.
C12_Witness ==
  /\ last.func = "remove_manager"
  /\ last.contract = FACTORY
  /\ last.args[1].a # Get(StorageOf(world, FACTORY).creator)
  /\ Run(world, FACTORY, "add_manager", <<VAddr(last.args[1].a), VAddr(last.args[1].a)>>,
         {last.args[1].a}).err = "Unauthorized"

\* the deployers a create_scorer is tried with
CreateDeployers == Accounts \cup {FACTORY}

\* C13: on an initialized ScorerFactory the manager list is never empty,
\* and remove_manager of the only listed address, by a permitted caller,
\* fails with CannotRemoveLastManager and leaves the list as it was.
C13_LastManagerKept ==
  \A c \in FactoryContracts :
    Factory_is_initialized(StorageOf(world, c)) =>
      /\ Len(ManagersOf(world, c)) >= 1
      /\ \A caller \in Accounts :
           (Len(ManagersOf(world, c)) = 1 /\ Factory_is_authorized(StorageOf(world, c), caller)) =>
             \E r \in {Run(world, c, "remove_manager",
                            <<VAddr(caller), VAddr(ManagersOf(world, c)[1])>>, {caller})} :
               ~r.ok /\ r.err = "CannotRemoveLastManager" /\ r.w = world

\* C14: create_scorer with a deployer that is not in the factory's manager
\* list fails with Unauthorized, deploying nothing and leaving the
\* directory as it was.
C14_CreateNeedsManager ==
  \A c \in FactoryContracts :
    Factory_is_initialized(StorageOf(world, c)) =>
      \A deployer \in CreateDeployers, salt \in Salts, ic \in InitCalls, auth \in Auths :
        ~Factory_is_manager(StorageOf(world, c), deployer) =>
          \E r \in {Run(world, c, "create_scorer", CreateArgs(deployer, salt, ic), auth)} :
            /\ ~r.ok
            /\ (deployer = c \/ deployer \in auth) => r.err = "Unauthorized"
            /\ r.w = world

\* init calls with fewer than three arguments
ShortInits == {ic \in InitCalls : Len(ic.args) < 3}

\* C15: create_scorer with fewer than three init_args fails before it
\* deploys: the ledger the handler leaves is the ledger it found, so no
\* contract was put at the derived address, the directory is as it was and
\* nothing was published; the error is InvalidInitArgs once the deployer
\* check has passed.
C15_ShortInitArgs ==
  \A c \in FactoryContracts, deployer \in CreateDeployers, salt \in Salts,
     ic \in ShortInits, auth \in Auths :
    \E r \in {Run(world, c, "create_scorer", CreateArgs(deployer, salt, ic), auth)} :
      /\ ~r.ok
      /\ r.w = world
      /\ r.ev = <<>>
      /\ Commit(world, r) = world
      /\ Published(r) = <<>>
      /\ r.err = IF deployer = c \/ deployer \in auth THEN "InvalidInitArgs" ELSE "Auth"

\* C15 witness: on an initialized factory with a free address, a signed
\* create_scorer carrying add_user(1) as init call fails with
\* InvalidInitArgs, although add_user succeeds on a freshly deployed scorer.
C15_Witness ==
  /\ Factory_is_initialized(StorageOf(world, FACTORY))
  /\ last.func = "create_scorer"
  /\ \E salt \in Salts :
       /\ ~Exists(world, DeterministicAddress(1, salt))
       /\ Run(world, FACTORY, "create_scorer",
              CreateArgs(1, salt, InitCall("add_user", <<VAddr(1)>>)), {1}).err
            = "InvalidInitArgs"
       /\ \E d \in {HostDeploy(world, 1, salt, WASM_SCORER)} :
            d.ok /\ Run(d.w, d.ret.a, "add_user", <<VAddr(1)>>, {1}).ok

\* init calls of create_scorer with varied metadata
MetaInits ==
  {InitCall("initialize", <<VAddr(cr), VMap(EmptyMap), VStr(n), VStr("d"), VStr(i)>>) :
     cr \in Accounts, n \in {"n", "m"}, i \in {"i", "n"}}
    \cup OtherInitCalls

\* get_scorers() of the factory at c
ScorersOf(w, c) == Factory_get_scorers(StorageOf(w, c)).map

\* the last three elements of init_args as (name, description, icon)
MetadataOf(init_args) ==
  <<init_args[Len(init_args) - 2].s, init_args[Len(init_args) - 1].s,
    init_args[Len(init_args)].s>>

ScorerAddresses ==
  Contracts \cup Accounts
    \cup {DeterministicAddress(deployer, salt) : deployer \in CreateDeployers, salt \in Salts}

\* C17: a remove_scorer that succeeds removes exactly the entry of A from
\* get_scorers(); after it, remove_scorer for A by any listed manager that
\* signs fails with ScorerNotFound, and so does, on an initialized factory,
\* remove_scorer for any address that is not in the directory; the failing
\* calls change nothing.
C17_RemoveScorer ==
  \A c \in FactoryContracts :
    \A caller \in Accounts, A \in ScorerAddresses, auth \in Auths :
      \E r \in {Run(world, c, "remove_scorer", <<VAddr(caller), VAddr(A)>>, auth)} :
        /\ r.ok =>
             /\ A \in DOMAIN ScorersOf(world, c)
             /\ A \notin DOMAIN ScorersOf(r.w, c)
             /\ ScorersOf(r.w, c) = MapRemove(ScorersOf(world, c), A)
             /\ \A a \in DOMAIN ScorersOf(world, c) \ {A} :
                  a \in DOMAIN ScorersOf(r.w, c) /\ ScorersOf(r.w, c)[a] = ScorersOf(world, c)[a]
             /\ \A again \in Accounts :
                  Factory_is_manager(StorageOf(r.w, c), again) =>
                    \E r2 \in {Run(r.w, c, "remove_scorer", <<VAddr(again), VAddr(A)>>, {again})} :
                      ~r2.ok /\ r2.err = "ScorerNotFound" /\ r2.w = r.w
        /\ (A \notin DOMAIN ScorersOf(world, c) /\ caller \in auth
              /\ Factory_is_manager(StorageOf(world, c), caller)) =>
             ~r.ok /\ r.err = "ScorerNotFound" /\ r.w = world

\* C17 witness: the last committed call removed one of two entries, the
\* other is still there, and the same removal again fails with
\* ScorerNotFound.
C17_Witness ==
  /\ last.contract = FACTORY /\ last.func = "remove_scorer"
  /\ Cardinality(DOMAIN ScorersOf(world, FACTORY)) = 1
  /\ last.args[2].a \notin DOMAIN ScorersOf(world, FACTORY)
  /\ Factory_is_manager(StorageOf(world, FACTORY), last.args[1].a)
  /\ Run(world, FACTORY, "remove_scorer", last.args, last.auth).err = "ScorerNotFound"

\* C18: remove_scorer succeeds only for a caller that signed and is in the
\* manager list at the time of the call; a caller that is not in the list
\* fails, with Unauthorized when it signed, whether or not the scorer is
\* in the directory, and nothing changes.
C18_RemoveScorerAuth ==
  \A c \in FactoryContracts :
    \A caller \in Accounts, A \in ScorerAddresses, auth \in Auths :
      \E r \in {Run(world, c, "remove_scorer", <<VAddr(caller), VAddr(A)>>, auth)} :
        /\ r.ok => (caller \in auth /\ Factory_is_manager(StorageOf(world, c), caller))
        /\ ~Factory_is_manager(StorageOf(world, c), caller) =>
             /\ ~r.ok
             /\ r.err = IF caller \in auth THEN "Unauthorized" ELSE "Auth"
             /\ r.w = world
             /\ Commit(world, r) = world

\* C18 witness: the factory creator has been removed from the manager
\* list, a scorer is in the directory, and the creator's signed
\* remove_scorer for it fails with Unauthorized.
C18_Witness ==
  /\ Factory_is_initialized(StorageOf(world, FACTORY))
  /\ last.contract = FACTORY /\ last.func = "remove_manager"
  /\ \E creator \in Accounts, A \in DOMAIN ScorersOf(world, FACTORY) :
       /\ Factory_is_scorer_factory_creator(StorageOf(world, FACTORY), creator)
       /\ ~Factory_is_manager(StorageOf(world, FACTORY), creator)
       /\ Run(world, FACTORY, "remove_scorer", <<VAddr(creator), VAddr(A)>>, {creator}).err
            = "Unauthorized"

\* get_users() of the scorer at c
UsersOf(w, c) == Scorer_get_users(StorageOf(w, c))

\* user is in the map with flag true
Active(w, c, user) == user \in DOMAIN UsersOf(w, c) /\ UsersOf(w, c)[user]

\* C19: on an initialized Scorer, for a user u that is not active (absent
\* or flagged false), add_user(u), remove_user(u), add_user(u), each signed
\* by u, all succeed and get_users()[u] is true, false, true after them;
\* the other entries of the map are untouched.
C19_UserRoundTrip ==
  \A c \in ScorerContracts :
    Scorer_is_initialized(StorageOf(world, c)) =>
      \A u \in Accounts, auth \in Auths :
        (u \in auth /\ ~Active(world, c, u)) =>
          \E r1 \in {Run(world, c, "add_user", <<VAddr(u)>>, auth)} :
            /\ r1.ok
            /\ UsersOf(r1.w, c) = MapSet(UsersOf(world, c), u, TRUE)
            /\ \E r2 \in {Run(r1.w, c, "remove_user", <<VAddr(u)>>, auth)} :
                 /\ r2.ok
                 /\ UsersOf(r2.w, c) = MapSet(UsersOf(world, c), u, FALSE)
                 /\ \E r3 \in {Run(r2.w, c, "add_user", <<VAddr(u)>>, auth)} :
                      /\ r3.ok
                      /\ UsersOf(r3.w, c) = MapSet(UsersOf(world, c), u, TRUE)
                      /\ UsersOf(r3.w, c)[u]

\* C19 witness: the last committed call, on the initialized scorer, removed
\* a user who is now in the map with flag false, next to an active one.
C19_Witness ==
  /\ Scorer_is_initialized(StorageOf(world, SCORER))
  /\ last.contract = SCORER /\ last.func = "remove_user"
  /\ last.args[1].a \in DOMAIN UsersOf(world, SCORER)
  /\ ~UsersOf(world, SCORER)[last.args[1].a]
  /\ \E v \in Accounts : Active(world, SCORER, v)
  /\ Run(world, SCORER, "add_user", last.args, last.auth).ok

\* C20: for a user that signed, add_user fails, with UserAlreadyExist,
\* exactly when the user is active, and remove_user fails, with
\* UserDoesNotExist, exactly when the user is absent or flagged false; a
\* failing call, these and the unsigned ones, leaves the map unchanged.
C20_UserErrors ==
  \A c \in ScorerContracts :
    \A u \in Accounts, auth \in Auths :
      /\ \E r \in {Run(world, c, "add_user", <<VAddr(u)>>, auth)} :
           /\ u \in auth =>
                /\ ~r.ok <=> Active(world, c, u)
                /\ r.err = "UserAlreadyExist" <=> Active(world, c, u)
           /\ u \notin auth => ~r.ok /\ r.err = "Auth"
           /\ ~r.ok => r.w = world /\ UsersOf(Commit(world, r), c) = UsersOf(world, c)
      /\ \E r \in {Run(world, c, "remove_user", <<VAddr(u)>>, auth)} :
           /\ u \in auth =>
                /\ ~r.ok <=> ~Active(world, c, u)
                /\ r.err = "UserDoesNotExist" <=> ~Active(world, c, u)
           /\ u \notin auth => ~r.ok /\ r.err = "Auth"
           /\ ~r.ok => r.w = world /\ UsersOf(Commit(world, r), c) = UsersOf(world, c)

\* C20 witness: one user is active and another is in the map flagged
\* false, so add_user fails for the first and remove_user for the second.
C20_Witness ==
  /\ last.contract = SCORER /\ last.func \in {"add_user", "remove_user"}
  /\ \E u \in Accounts, v \in Accounts :
       /\ Active(world, SCORER, u)
       /\ v \in DOMAIN UsersOf(world, SCORER) /\ ~UsersOf(world, SCORER)[v]
       /\ Run(world, SCORER, "add_user", <<VAddr(u)>>, {u}).err = "UserAlreadyExist"
       /\ Run(world, SCORER, "remove_user", <<VAddr(v)>>, {v}).err = "UserDoesNotExist"

\* get_users()[u] as an option: absent, or the stored flag
UserEntry(w, c, u) == IF u \in DOMAIN UsersOf(w, c) THEN Some(UsersOf(w, c)[u]) ELSE None

\* C21: no invocation on a Scorer that the user u did not authorize
\* changes u's entry in the user map, whoever made it and whatever the
\* operation.
C21_UserEntryOwned ==
  \A c \in ScorerContracts :
    \A call \in CallsOn(c), auth \in Auths, u \in Accounts :
      u \notin auth =>
        UserEntry(After(world, c, call.func, call.args, auth), c, u) = UserEntry(world, c, u)

\* get_badges() of the scorer at c
BadgesOf(w, c) == Scorer_get_badges(StorageOf(w, c))

\* scores an add_badge is tried with: zero, the maximum score and its
\* neighbours, and a large u32
Scores == {0, 1, 100, MaxScore - 1, MaxScore, MaxScore + 1, 2147483647}

\* C22: add_badge by a signed manager for a key that is in the badge map
\* fails with BadgeAlreadyExists whatever the score, and changes nothing.
C22_DuplicateBadge ==
  \A c \in ScorerContracts :
    \A sender \in Accounts, key \in DOMAIN BadgesOf(world, c), score \in Scores :
      Scorer_manager_exists(StorageOf(world, c), sender).exists =>
        \E r \in {Run(world, c, "add_badge",
                       <<VAddr(sender), VStr(key.name), VAddr(key.issuer), VU32(score)>>,
                       {sender})} :
          ~r.ok /\ r.err = "BadgeAlreadyExists" /\ r.w = world

\* a badge map as the claim wants it: names non-empty, 0 < score <= 10000
ValidBadges(badges) ==
  \A key \in DOMAIN badges : key.name # "" /\ 0 < badges[key] /\ badges[key] <= MaxScore

\* badge maps handed to initialize, valid and not
AnyBadgeMaps ==
  BadgeMaps \cup {(BadgeId("", 1) :> 100), (Badge :> 0), (Badge :> MaxScore + 1)}

\* C23: every badge of every Scorer has a non-empty name and a score s
\* with 0 < s <= 10000, and neither initialize nor add_badge stores a badge
\* that has not.
C23_BadgesValid ==
  \A c \in ScorerContracts :
    /\ ValidBadges(BadgesOf(world, c))
    /\ \A creator \in Accounts, scorer_badges \in AnyBadgeMaps :
         ValidBadges(BadgesOf(After(world, c, "initialize",
           <<VAddr(creator), VMap(scorer_badges), VStr("n"), VStr("d"), VStr("i")>>,
           {creator}), c))
    /\ \A sender \in Accounts, name \in Names, score \in Scores :
         ValidBadges(BadgesOf(After(world, c, "add_badge",
           <<VAddr(sender), VStr(name), VAddr(1), VU32(score)>>, {sender}), c))

\* C24: add_badge and remove_badge succeed only for a sender that signed
\* and is in the manager list at the time of the call; a sender that is not
\* in the list is refused, with Unauthorized when it signed and by
\* require_auth when it did not, and nothing changes.
C24_BadgeAuth ==
  \A c \in ScorerContracts :
    \A sender \in Accounts, name \in Names, auth \in Auths :
      /\ \A score \in {0, 100, MaxScore + 1} :
           \E r \in {Run(world, c, "add_badge",
                          <<VAddr(sender), VStr(name), VAddr(1), VU32(score)>>, auth)} :
             /\ r.ok => (sender \in auth
                          /\ Scorer_manager_exists(StorageOf(world, c), sender).exists)
             /\ ~Scorer_manager_exists(StorageOf(world, c), sender).exists =>
                  /\ ~r.ok /\ r.w = world
                  /\ r.err = IF sender \in auth THEN "Unauthorized" ELSE "Auth"
      /\ \E r \in {Run(world, c, "remove_badge",
                        <<VAddr(sender), VStr("b"), VAddr(1)>>, auth)} :
           /\ r.ok => (sender \in auth
                        /\ Scorer_manager_exists(StorageOf(world, c), sender).exists)
           /\ ~Scorer_manager_exists(StorageOf(world, c), sender).exists =>
                /\ ~r.ok /\ r.w = world
                /\ r.err = IF sender \in auth THEN "Unauthorized" ELSE "Auth"

\* C24 witness: the creator has removed itself from the manager list, a
\* badge is stored, and the creator's signed add_badge of a fresh key and
\* remove_badge of the stored one both fail with Unauthorized.
C24_Witness ==
  /\ last.contract = SCORER /\ last.func = "remove_manager"
  /\ Badge \in DOMAIN BadgesOf(world, SCORER)
  /\ \E creator \in Accounts :
       /\ StorageOf(world, SCORER).creator = Some(creator)
       /\ ~Scorer_manager_exists(StorageOf(world, SCORER), creator).exists
       /\ Run(world, SCORER, "add_badge",
              <<VAddr(creator), VStr("c"), VAddr(1), VU32(100)>>, {creator}).err = "Unauthorized"
       /\ Run(world, SCORER, "remove_badge",
              <<VAddr(creator), VStr("b"), VAddr(1)>>, {creator}).err = "Unauthorized"

\* C25: add_badge by a signed manager with a non-empty name and a key not
\* in the badge map succeeds for every score up to 10000, 10000 included,
\* and stores exactly that score under the key; for every score above
\* 10000 it fails with InvalidScoreRange and stores nothing.
C25_ScoreRange ==
  \A c \in ScorerContracts :
    \A sender \in Accounts, name \in {"b", "c"}, issuer \in Accounts, score \in Scores :
      (Scorer_manager_exists(StorageOf(world, c), sender).exists
         /\ BadgeId(name, issuer) \notin DOMAIN BadgesOf(world, c)) =>
        \E r \in {Run(world, c, "add_badge",
                       <<VAddr(sender), VStr(name), VAddr(issuer), VU32(score)>>, {sender})} :
          IF score > MaxScore
          THEN ~r.ok /\ r.err = "InvalidScoreRange" /\ r.w = world
          ELSE /\ r.ok
               /\ BadgesOf(r.w, c) = MapSet(BadgesOf(world, c), BadgeId(name, issuer), score)
               /\ BadgesOf(r.w, c)[BadgeId(name, issuer)] = score

\* C25 witness: the last committed call added a badge with score 10000,
\* which is what the map holds, and 10001 for a fresh key is refused.
C25_Witness ==
  /\ last.contract = SCORER /\ last.func = "add_badge"
  /\ last.args[4].a = MaxScore
  /\ BadgesOf(world, SCORER)[BadgeId(last.args[2].s, last.args[3].a)] = MaxScore
  /\ Run(world, SCORER, "add_badge",
         <<last.args[1], VStr("c"), VAddr(1), VU32(MaxScore + 1)>>, last.auth).err
       = "InvalidScoreRange"

\* C26: remove_badge by a signed manager fails with BadgeNotFound, changing
\* nothing, when the key is not in the badge map; otherwise it removes
\* exactly that key, also when another badge was added just before, and
\* the key can then be added again and removed again.
C26_RemoveBadge ==
  \A c \in ScorerContracts :
    \A sender \in Accounts, name \in {"b", "c"}, other \in {"b", "c"}, issuer \in Accounts :
      (Scorer_manager_exists(StorageOf(world, c), sender).exists /\ other # name) =>
        \E w2 \in {After(world, c, "add_badge",
                        <<VAddr(sender), VStr(other), VAddr(issuer), VU32(1)>>, {sender})} :
          \E r \in {Run(w2, c, "remove_badge",
                         <<VAddr(sender), VStr(name), VAddr(issuer)>>, {sender})} :
            /\ BadgeId(other, issuer) \in DOMAIN BadgesOf(w2, c)
            /\ IF BadgeId(name, issuer) \notin DOMAIN BadgesOf(w2, c)
               THEN ~r.ok /\ r.err = "BadgeNotFound" /\ r.w = w2
               ELSE /\ r.ok
                    /\ BadgesOf(r.w, c) = MapRemove(BadgesOf(w2, c), BadgeId(name, issuer))
                    /\ BadgeId(other, issuer) \in DOMAIN BadgesOf(r.w, c)
                    /\ \E r2 \in {Run(r.w, c, "add_badge",
                          <<VAddr(sender), VStr(name), VAddr(issuer), VU32(100)>>, {sender})} :
                         /\ r2.ok
                         /\ BadgesOf(r2.w, c) = MapSet(BadgesOf(w2, c), BadgeId(name, issuer), 100)
                         /\ Run(r2.w, c, "remove_badge",
                                <<VAddr(sender), VStr(name), VAddr(issuer)>>, {sender}).ok

\* C26 witness: the last committed call removed the badge (b, 1); removing
\* it again fails with BadgeNotFound and adding it again succeeds.
C26_Witness ==
  /\ last.contract = SCORER /\ last.func = "remove_badge"
  /\ Badge \notin DOMAIN BadgesOf(world, SCORER)
  /\ Scorer_manager_exists(StorageOf(world, SCORER), last.args[1].a).exists
  /\ Run(world, SCORER, "remove_badge", last.args, last.auth).err = "BadgeNotFound"
  /\ Run(world, SCORER, "add_badge",
         <<last.args[1], VStr("b"), VAddr(1), VU32(100)>>, last.auth).ok

\* wasm hashes an upgrade is tried with
UpgradeHashes == Uploaded \cup {WASM_MISSING}

\* C27: upgrade succeeds only when a creator is stored and signed the call;
\* a failing upgrade changes nothing; a successful one replaces the code of
\* the instance by the new hash and leaves every storage slot of it, and
\* every other contract, as it was.
C27_Upgrade ==
  \A c \in ScorerContracts :
    \A new_wasm_hash \in UpgradeHashes, auth \in Auths :
      \E r \in {Run(world, c, "upgrade", <<VHash(new_wasm_hash)>>, auth)} :
        /\ r.ok =>
             /\ IsSome(StorageOf(world, c).creator)
             /\ Get(StorageOf(world, c).creator) \in auth
             /\ r.w = [world EXCEPT !.inst[c].wasm = new_wasm_hash]
             /\ StorageOf(r.w, c) = StorageOf(world, c)
        /\ (~IsSome(StorageOf(world, c).creator)
              \/ Get(StorageOf(world, c).creator) \notin auth) =>
             ~r.ok /\ r.w = world
        /\ ~r.ok => Commit(world, r) = world

\* C27 witness: the last committed call upgraded the initialized scorer,
\* which now runs the new code (contract_version 0) with a user and a badge
\* still stored, and an upgrade not signed by the creator fails.
C27_Witness ==
  /\ last.contract = SCORER /\ last.func = "upgrade"
  /\ world.inst[SCORER].wasm = WASM_SCORER_NEW
  /\ Run(world, SCORER, "contract_version", <<>>, {}).ret = VU32(0)
  /\ Scorer_is_initialized(StorageOf(world, SCORER))
  /\ \E u \in Accounts : Active(world, SCORER, u)
  /\ Badge \in DOMAIN BadgesOf(world, SCORER)
  /\ ~Run(world, SCORER, "upgrade", <<VHash(WASM_SCORER)>>,
          Accounts \ {Get(StorageOf(world, SCORER).creator)}).ok

\* the (category, action) topic pair of each state-changing operation
OpTopics(func) ==
  CASE func = "initialize" -> <<"init", "contract">>
    [] func = "upgrade" -> <<"upgrade", "wasm">>
    [] func = "add_manager" -> <<"manager", "add">>
    [] func = "remove_manager" -> <<"manager", "remove">>
    [] func = "add_user" -> <<"user", "add">>
    [] func = "remove_user" -> <<"user", "remove">>
    [] func = "add_badge" -> <<"badge", "add">>
    [] func = "remove_badge" -> <<"badge", "remove">>
    [] func = "create_scorer" -> <<"scorer", "create">>
    [] func = "remove_scorer" -> <<"scorer", "remove">>
    [] OTHER -> <<"", "">>

\* the arguments and results of a call that its event has to carry: every
\* argument, except for create_scorer, whose event names the deployer and
\* the new address
Actors(call) ==
  IF call.func = "create_scorer" THEN {call.args[1], call.ret}
  ELSE {call.args[i] : i \in 1..Len(call.args)}

\* the elements of a sequence
Range(seq) == {seq[i] : i \in 1..Len(seq)}

\* C28: the last committed operation of a Scorer or a ScorerFactory, when
\* it is one of the state-changing operations, published an event of the
\* contract it ran on, under the topic pair of the operation, with the
\* actors and values of the call in its payload.
C28_EveryOpEmits ==
  (last.func # ""
     /\ world.inst[last.contract].wasm \in {WASM_FACTORY, WASM_SCORER, WASM_SCORER_NEW}
     /\ OpTopics(last.func) # <<"", "">>) =>
    \E i \in 1..Len(last.events) :
      /\ last.events[i].contract = last.contract
      /\ last.events[i].topics = OpTopics(last.func)
      /\ Actors(last) \subseteq Range(last.events[i].data)

\* C29: a successful initialize(creator, badges, name, description, icon)
\* of a Scorer leaves the instance with that creator, the manager list
\* <<creator>>, an empty user map, the badge map as supplied, Initialized
\* true and the metadata as supplied, and publishes exactly one event,
\* init/contract, carrying creator, manager list, badges and metadata; the
\* scorer initialized by the last committed call is in that state.
C29_InitializeState ==
  /\ \A c \in ScorerContracts :
       \A creator \in Accounts, scorer_badges \in AnyBadgeMaps, name \in Names,
          description \in {"", "d"}, icon \in {"", "j"}, auth \in Auths :
         \E r \in {Run(world, c, "initialize",
                        <<VAddr(creator), VMap(scorer_badges), VStr(name), VStr(description),
                          VStr(icon)>>, auth)} :
           r.ok =>
             /\ StorageOf(r.w, c).creator = Some(creator)
             /\ ManagersOf(r.w, c) = <<creator>>
             /\ StorageOf(r.w, c).users = Some(EmptyMap)
             /\ UsersOf(r.w, c) = EmptyMap
             /\ StorageOf(r.w, c).badges = Some(scorer_badges)
             /\ BadgesOf(r.w, c) = scorer_badges
             /\ Scorer_is_initialized(StorageOf(r.w, c))
             /\ Scorer_get_metadata(StorageOf(r.w, c)) = <<name, description, icon>>
             /\ r.ev = <<Event(c, "init", "contract",
                               <<VAddr(creator), VVec(<<creator>>), VMap(scorer_badges),
                                 VStr(name), VStr(description), VStr(icon)>>)>>
             /\ \A other \in Contracts \ {c} : r.w.inst[other] = world.inst[other]
             /\ r.w.inst[c].wasm = world.inst[c].wasm
  /\ (last.func = "initialize" /\ IsScorer(last.contract)) =>
       /\ StorageOf(world, last.contract).creator = Some(last.args[1].a)
       /\ ManagersOf(world, last.contract) = <<last.args[1].a>>
       /\ UsersOf(world, last.contract) = EmptyMap
       /\ BadgesOf(world, last.contract) = last.args[2].m
       /\ Scorer_get_metadata(StorageOf(world, last.contract))
            = <<last.args[3].s, last.args[4].s, last.args[5].s>>
       /\ Len(last.events) = 1

\* C29 witness: the last committed call initialized the registered scorer
\* with one badge.
C29_Witness ==
  /\ last.contract = SCORER /\ last.func = "initialize"
  /\ BadgesOf(world, SCORER) = (Badge :> 100)
  /\ ManagersOf(world, SCORER) = <<last.args[1].a>>
  /\ StorageOf(world, SCORER).users = Some(EmptyMap)
  /\ Scorer_get_metadata(StorageOf(world, SCORER)) = <<"n", "d", "i">>

\* vec without the entries equal to x, the others in their order
Without(vec, x) == LET Keep(y) == y # x IN SelectSeq(vec, Keep)

\* C30: on a Scorer and on a ScorerFactory a successful add_manager leaves
\* the old list with the new address appended, and a successful
\* remove_manager leaves the old list without the target, one entry
\* shorter, the remaining entries in the order they had.
C30_ManagerOrder ==
  \A c \in ScorerContracts \cup FactoryContracts :
    \A sender \in Accounts, m \in ManagerAddresses :
      /\ \E r \in {Run(world, c, "add_manager", <<VAddr(sender), VAddr(m)>>, {sender})} :
           r.ok => ManagersOf(r.w, c) = Append(ManagersOf(world, c), m)
      /\ \E r \in {Run(world, c, "remove_manager", <<VAddr(sender), VAddr(m)>>, {sender})} :
           r.ok =>
             /\ ManagersOf(r.w, c) = Without(ManagersOf(world, c), m)
             /\ Len(ManagersOf(r.w, c)) = Len(ManagersOf(world, c)) - 1

\* C30 witness: after the creator 1 listed three more managers, the last
\* committed call removed the DEPLOYER address from the middle of the
\* scorer's list, which is now <<1, 2, FACTORY>>; the factory's list still
\* holds four entries.
C30_Witness ==
  /\ last.contract = SCORER /\ last.func = "remove_manager"
  /\ last.args[2].a = DEPLOYER
  /\ ManagersOf(world, SCORER) = <<1, 2, FACTORY>>
  /\ ManagersOf(world, FACTORY) = <<1, 2, DEPLOYER, FACTORY>>

\* display strings of an initialize with at least one of them empty
EmptyStrings ==
  {t \in {"", "n"} \X {"", "d"} \X {"", "i"} : t[1] = "" \/ t[2] = "" \/ t[3] = ""}

\* C31: initialize of a Scorer with an empty name, description or icon
\* fails with EmptyArg, whoever signed and whatever the state, and stores
\* and publishes nothing; an uninitialized instance is still uninitialized
\* after it and an initialize with non-empty strings signed by the creator
\* then succeeds.
C31_EmptyArg ==
  \A c \in ScorerContracts :
    \A creator \in Accounts, scorer_badges \in BadgeMaps, t \in EmptyStrings, auth \in Auths :
      \E r \in {Run(world, c, "initialize",
                     <<VAddr(creator), VMap(scorer_badges), VStr(t[1]), VStr(t[2]), VStr(t[3])>>,
                     auth)} :
        /\ ~r.ok /\ r.err = "EmptyArg"
        /\ r.w = world /\ r.ev = <<>>
        /\ Commit(world, r) = world
        /\ ~Scorer_is_initialized(StorageOf(world, c)) =>
             /\ ~Scorer_is_initialized(StorageOf(Commit(world, r), c))
             /\ \E r2 \in {Run(Commit(world, r), c, "initialize",
                                <<VAddr(creator), VMap(scorer_badges), VStr("n"), VStr("d"),
                                  VStr("i")>>, {creator})} :
                  r2.ok /\ Scorer_is_initialized(StorageOf(r2.w, c))

\* C31 witness: the registered scorer is uninitialized although a user
\* has registered on it; initialize with an empty icon fails with EmptyArg
\* and the same call with an icon succeeds.
C31_Witness ==
  /\ ~Scorer_is_initialized(StorageOf(world, SCORER))
  /\ last.contract = SCORER /\ last.func = "add_user"
  /\ Run(world, SCORER, "initialize",
         <<VAddr(1), VMap(EmptyMap), VStr("n"), VStr("d"), VStr("")>>, {1}).err = "EmptyArg"
  /\ Run(world, SCORER, "initialize",
         <<VAddr(1), VMap(EmptyMap), VStr("n"), VStr("d"), VStr("i")>>, {1}).ok

\* C32: on an initialized Scorer no invocation takes a key out of the user
\* map, and a successful remove_user(u) leaves u in the map with value
\* false.
C32_UserKeysKept ==
  \A c \in ScorerContracts :
    Scorer_is_initialized(StorageOf(world, c)) =>
      /\ \A call \in CallsOn(c), auth \in Auths :
           DOMAIN UsersOf(world, c)
             \subseteq DOMAIN UsersOf(After(world, c, call.func, call.args, auth), c)
      /\ \A u \in Accounts, auth \in Auths :
           \E r \in {Run(world, c, "remove_user", <<VAddr(u)>>, auth)} :
             r.ok => UserEntry(r.w, c, u) = Some(FALSE)

\* C32 witness: the last committed call on the initialized scorer removed
\* a user, who is still a key of the map, with value false.
C32_Witness ==
  /\ Scorer_is_initialized(StorageOf(world, SCORER))
  /\ last.contract = SCORER /\ last.func = "remove_user"
  /\ UserEntry(world, SCORER, last.args[1].a) = Some(FALSE)

\* C33: an invocation on a Scorer or on a ScorerFactory, whatever the
\* operation, its arguments and its signers, changes no other contract
\* instance on the ledger: not the code and not one storage slot (managers,
\* users, badges, metadata, directory) of any of them.
C33_Isolation ==
  \A c \in ScorerContracts \cup FactoryContracts :
    \A call \in CallsOn(c), auth \in Auths :
      \E w2 \in {After(world, c, call.func, call.args, auth)} :
        \A other \in Contracts \ {c} : w2.inst[other] = world.inst[other]

\* C33 witness: two scorers exist; the last committed call added a user to
\* one of them, and on the other that user is not registered: its
\* remove_user there fails with UserDoesNotExist.
C33_Witness ==
  /\ last.func = "add_user"
  /\ Active(world, last.contract, last.args[1].a)
  /\ \E other \in ScorerContracts \ {last.contract} :
       /\ ~Active(world, other, last.args[1].a)
       /\ Run(world, other, "remove_user", last.args, last.auth).err = "UserDoesNotExist"

\* C34: a successful remove_scorer changes the directory slot of the
\* factory and nothing else: the set of deployed contracts, the code and
\* every storage slot of the removed scorer and of every other contract,
\* and the factory's other slots are as before; the removed scorer is
\* still initialized and its add_user, and add_badge by a manager, still
\* succeed.
C34_RemoveKeepsScorer ==
  \A c \in FactoryContracts :
    \A caller \in Accounts, A \in ScorerAddresses, auth \in Auths :
      \E r \in {Run(world, c, "remove_scorer", <<VAddr(caller), VAddr(A)>>, auth)} :
        r.ok =>
          /\ DOMAIN r.w.inst = DOMAIN world.inst
          /\ Exists(r.w, A)
          /\ \A other \in Contracts \ {c} : r.w.inst[other] = world.inst[other]
          /\ r.w.inst[c] = [world.inst[c] EXCEPT !.st.scorers = Some(ScorersOf(r.w, c))]
          /\ Scorer_is_initialized(StorageOf(r.w, A))
          /\ \A u \in Accounts :
               ~Active(r.w, A, u) => Run(r.w, A, "add_user", <<VAddr(u)>>, {u}).ok
          /\ \A mgr \in Accounts :
               Scorer_manager_exists(StorageOf(r.w, A), mgr).exists =>
                 Run(r.w, A, "add_badge",
                     <<VAddr(mgr), VStr("b"), VAddr(1), VU32(100)>>, {mgr}).ok

\* C34 witness: the last committed call removed a scorer from the
\* directory; the contract is still there, initialized, with its manager
\* list and metadata, and takes a new user.
C34_Witness ==
  /\ last.contract = FACTORY /\ last.func = "remove_scorer"
  /\ last.args[2].a \notin DOMAIN ScorersOf(world, FACTORY)
  /\ Exists(world, last.args[2].a)
  /\ Scorer_is_initialized(StorageOf(world, last.args[2].a))
  /\ ManagersOf(world, last.args[2].a) = <<1>>
  /\ Scorer_get_metadata(StorageOf(world, last.args[2].a)) = <<"n", "d", "i">>
  /\ Run(world, last.args[2].a, "add_user", <<VAddr(2)>>, {2}).ok

\* C35: every address in the directory of a factory is a deployed scorer
\* whose get_metadata() equals the directory entry, and no invocation on
\* that scorer changes what get_metadata() returns, so the two agree for
\* as long as the entry is there; a create_scorer with init_fn =
\* initialize records what the new scorer reports.
C35_CachedMetadata ==
  \A f \in FactoryContracts :
    /\ \A A \in DOMAIN ScorersOf(world, f) :
         /\ Exists(world, A) /\ IsScorer(A)
         /\ ScorersOf(world, f)[A] = Scorer_get_metadata(StorageOf(world, A))
         /\ \A call \in CallsOn(A), auth \in Auths :
              Scorer_get_metadata(StorageOf(After(world, A, call.func, call.args, auth), A))
                = Scorer_get_metadata(StorageOf(world, A))
    /\ \A deployer \in CreateDeployers, salt \in Salts, ic \in MetaInits, auth \in Auths :
         \E r \in {Run(world, f, "create_scorer", CreateArgs(deployer, salt, ic), auth)} :
           (r.ok /\ ic.fn = "initialize") =>
             ScorersOf(r.w, f)[r.ret.a] = Scorer_get_metadata(StorageOf(r.w, r.ret.a))

\* C35 witness: the last committed call ran on a scorer that is in the
\* factory's directory, after its creation, and the entry and the scorer's
\* own metadata are both ("n", "d", "i").
C35_Witness ==
  /\ last.contract \in DOMAIN ScorersOf(world, FACTORY)
  /\ last.func \in {"add_user", "add_badge", "add_manager", "upgrade"}
  /\ ScorersOf(world, FACTORY)[last.contract] = <<"n", "d", "i">>
  /\ Scorer_get_metadata(StorageOf(world, last.contract)) = <<"n", "d", "i">>

\* no create_scorer lists an address that is already on the ledger: a
\* successful one returns an address that was free
C36_Inv ==
  \A f \in FactoryContracts :
    \A deployer \in CreateDeployers, salt \in Salts, ic \in FactoryInits, auth \in Auths :
      \E r \in {Run(world, f, "create_scorer", CreateArgs(deployer, salt, ic), auth)} :
        /\ r.ok => ~Exists(world, r.ret.a)
        /\ \A A \in Contracts \ DOMAIN ScorersOf(world, f) :
             A \notin DOMAIN ScorersOf(Commit(world, r), f)

\* C36: an address that is on the ledger and not in a factory's directory,
\* as A is once remove_scorer(A) has succeeded, stays on the ledger and
\* out of that directory in every later state.
C36_NeverRelisted ==
  /\ []C36_Inv
  /\ [][\A f \in FactoryContracts, A \in Contracts :
          A \notin DOMAIN ScorersOf(world, f) =>
            (A \in DOMAIN world'.inst /\ A \notin DOMAIN ScorersOf(world', f))]_vars

\* C36 witness: the last committed call removed the scorer created by
\* deployer 1; the same create_scorer again is refused, the address being
\* occupied, while another salt is still accepted.
C36_Witness ==
  /\ last.contract = FACTORY /\ last.func = "remove_scorer"
  /\ last.args[2].a \notin DOMAIN ScorersOf(world, FACTORY)
  /\ \E salt \in Salts, other \in Salts :
       /\ last.args[2].a = DeterministicAddress(1, salt)
       /\ ~Run(world, FACTORY, "create_scorer", CreateArgs(1, salt, GoodInit(1)), {1}).ok
       /\ Run(world, FACTORY, "create_scorer", CreateArgs(1, other, GoodInit(1)), {1}).ok

\* C37: on an initialized ScorerFactory an add_manager signed by the
\* factory creator for an address that is not in the manager list
\* succeeds and appends it, whether or not the creator is in the list and
\* also when the list is empty; the list is non-empty after it.
C37_CreatorRecovers ==
  \A f \in FactoryContracts :
    Factory_is_initialized(StorageOf(world, f)) =>
      \A m \in ManagerAddresses, auth \in Auths :
        (Get(StorageOf(world, f).creator) \in auth /\ ~Contains(ManagersOf(world, f), m)) =>
          \E r \in {Run(world, f, "add_manager",
                         <<VAddr(Get(StorageOf(world, f).creator)), VAddr(m)>>, auth)} :
            /\ r.ok
            /\ ManagersOf(r.w, f) = Append(ManagersOf(world, f), m)
            /\ Len(ManagersOf(Commit(world, r), f)) >= 1

\* C37 witness: the last committed call removed the last manager, the
\* list is empty, and the creator's add_manager of itself succeeds.
C37_Witness ==
  /\ Factory_is_initialized(StorageOf(world, FACTORY))
  /\ last.contract = FACTORY /\ last.func = "remove_manager"
  /\ ManagersOf(world, FACTORY) = <<>>
  /\ \E creator \in Accounts :
       /\ Factory_is_scorer_factory_creator(StorageOf(world, FACTORY), creator)
       /\ Run(world, FACTORY, "add_manager", <<VAddr(creator), VAddr(creator)>>, {creator}).ok

\* in every state: the target of the last committed remove_manager is not
\* in the list it was removed from, and an account that is not in the
\* manager list of an initialized contract is refused by add_badge and
\* remove_badge of the Scorer, by remove_scorer of the ScorerFactory and,
\* unless it is the factory creator, by the factory's add_manager and
\* remove_manager: with Unauthorized when it signed, by require_auth when
\* it did not; nothing changes
C38_Inv ==
  /\ last.func = "remove_manager" =>
       ~Contains(ManagersOf(world, last.contract), last.args[2].a)
  /\ \A c \in ScorerContracts, m \in Accounts, auth \in Auths :
       (IsSome(StorageOf(world, c).creator) /\ ~Contains(ManagersOf(world, c), m)) =>
         /\ \E r \in {Run(world, c, "add_badge",
                           <<VAddr(m), VStr("b"), VAddr(1), VU32(100)>>, auth)} :
              /\ ~r.ok /\ r.w = world
              /\ r.err = IF m \in auth THEN "Unauthorized" ELSE "Auth"
         /\ \E r \in {Run(world, c, "remove_badge", <<VAddr(m), VStr("b"), VAddr(1)>>, auth)} :
              /\ ~r.ok /\ r.w = world
              /\ r.err = IF m \in auth THEN "Unauthorized" ELSE "Auth"
  /\ \A f \in FactoryContracts, m \in Accounts, auth \in Auths :
       (Factory_is_initialized(StorageOf(world, f)) /\ ~Contains(ManagersOf(world, f), m)) =>
         /\ \A A \in ScorerAddresses :
              \E r \in {Run(world, f, "remove_scorer", <<VAddr(m), VAddr(A)>>, auth)} :
                /\ ~r.ok /\ r.w = world
                /\ r.err = IF m \in auth THEN "Unauthorized" ELSE "Auth"
         /\ ~Factory_is_scorer_factory_creator(StorageOf(world, f), m) =>
              \A func \in ManagerOps, target \in Accounts :
                \E r \in {Run(world, f, func, <<VAddr(m), VAddr(target)>>, auth)} :
                  /\ ~r.ok /\ r.w = world
                  /\ r.err = IF m \in auth THEN "Unauthorized" ELSE "Auth"

\* C38: a removed manager is out of the list at once and is refused as
\* above, and it stays out of the list of the initialized contract until
\* an add_manager for it is committed on that contract.
C38_Revoked ==
  /\ []C38_Inv
  /\ [][\A c \in ScorerContracts \cup FactoryContracts, m \in Accounts :
          (IsSome(StorageOf(world, c).creator)
             /\ ~Contains(ManagersOf(world, c), m) /\ Contains(ManagersOf(world', c), m)) =>
            (last'.contract = c /\ last'.func = "add_manager" /\ last'.args[2].a = m)]_vars

\* C38 witness: the last committed call removed a manager from the
\* scorer's list, the same account is not in the factory's list either,
\* and its signed add_badge and remove_scorer fail with Unauthorized.
C38_Witness ==
  /\ last.contract = SCORER /\ last.func = "remove_manager"
  /\ Factory_is_initialized(StorageOf(world, FACTORY))
  /\ ~Contains(ManagersOf(world, FACTORY), last.args[2].a)
  /\ Run(world, SCORER, "add_badge",
         <<last.args[2], VStr("b"), VAddr(1), VU32(100)>>, {last.args[2].a}).err = "Unauthorized"
  /\ Run(world, FACTORY, "remove_scorer",
         <<last.args[2], VAddr(SCORER)>>, {last.args[2].a}).err = "Unauthorized"

\* the slots that only initialize writes
ScorerInitSlots(st) == <<st.creator, st.name, st.description, st.icon>>

FactoryInitSlots(st) == <<st.creator, st.wasm_hash>>

\* C39: the slots written only by initialize hold the arguments of the
\* initialize that was just committed, and on an initialized Scorer or
\* ScorerFactory no invocation of the contract, by anyone, changes them:
\* the Scorer's creator, name, description and icon, the factory's creator
\* and scorer code hash; every scorer that create_scorer deploys runs the
\* code whose hash the factory stores.
C39_InitSlotsFrozen ==
  /\ (last.func = "initialize" /\ last.contract \in ScorerContracts) =>
       ScorerInitSlots(StorageOf(world, last.contract))
         = <<Some(last.args[1].a), Some(last.args[3].s), Some(last.args[4].s),
             Some(last.args[5].s)>>
  /\ (last.func = "initialize" /\ last.contract \in FactoryContracts) =>
       FactoryInitSlots(StorageOf(world, last.contract))
         = <<Some(last.args[1].a), Some(last.args[2].s)>>
  /\ \A c \in ScorerContracts :
       Scorer_is_initialized(StorageOf(world, c)) =>
         \A call \in CallsOn(c), auth \in Auths :
           ScorerInitSlots(StorageOf(After(world, c, call.func, call.args, auth), c))
             = ScorerInitSlots(StorageOf(world, c))
  /\ \A f \in FactoryContracts :
       Factory_is_initialized(StorageOf(world, f)) =>
         \A call \in CallsOn(f), auth \in Auths :
           \E r \in {Run(world, f, call.func, call.args, auth)} :
             /\ FactoryInitSlots(StorageOf(Commit(world, r), f))
                  = FactoryInitSlots(StorageOf(world, f))
             /\ (r.ok /\ call.func = "create_scorer") =>
                  r.w.inst[r.ret.a].wasm = Get(StorageOf(world, f).wasm_hash)

\* C39 witness: a scorer that the initialized factory created runs the
\* stored code hash, its own initialize slots are set, and an upgrade of
\* the scorer by its creator and a second initialize of the factory leave
\* the slots of both as they are.
C39_Witness ==
  /\ last.contract = FACTORY /\ last.func = "create_scorer"
  /\ Factory_is_initialized(StorageOf(world, FACTORY))
  /\ world.inst[last.ret.a].wasm = Get(StorageOf(world, FACTORY).wasm_hash)
  /\ Scorer_is_initialized(StorageOf(world, last.ret.a))
  /\ \E r \in {Run(world, last.ret.a, "upgrade", <<VHash(WASM_SCORER_NEW)>>,
                    {Get(StorageOf(world, last.ret.a).creator)})} :
       r.ok /\ ScorerInitSlots(StorageOf(r.w, last.ret.a))
                 = ScorerInitSlots(StorageOf(world, last.ret.a))
  /\ ~Run(world, FACTORY, "initialize", <<VAddr(2), VHash(WASM_SCORER_NEW)>>, {2}).ok

====
